---------------------------- MODULE Spec2Model ----------------------------
(***************************************************************************)
(* A model of the DeepWiki automation engine (DeepwikiAutomator): the      *)
(* three top-level operations askQuestion, goDeeper and sendFollowUp, the   *)
(* browser session they own, and the schedule-driven polling loop          *)
(* fetchApiResponse with its classification of the status payload.         *)
(* Specification Spec runs one engine operation.  ToolSpec runs calls of   *)
(* the two tool handlers (wiki_question, wiki_parser) against the file     *)
(* cache, an engine operation being one step with the outcomes it can      *)
(* have.  AssemblerSpec applies transformResponse to status payloads.      *)
(*                                                                         *)
(* Text is modelled as a sequence of strings.  Every part of a message     *)
(* that can hold digits is split into one-character strings, so that       *)
(* String.prototype.includes('404') is a search for the three characters   *)
(* "4","0","4" in a row; fixed prose without digits is one opaque element. *)
(* Time is in whole seconds.                                               *)
(***************************************************************************)
EXTENDS Integers, Sequences, FiniteSets, TLC

\* ------------------------------------------------------------------------
\* Bounds of the model
\* ------------------------------------------------------------------------

\* Longest time, in seconds, one status fetch may take to answer.
MaxFetchDelay == 12

\* Most fragments the remote engine streams into one query's response.
MaxFragments == 1

\* Most fragments in the response of a query given to transformResponse.
MaxSequence == 3

\* Most tool calls made one after the other.
MaxCalls == 2

\* ------------------------------------------------------------------------
\* Program constants (CONFIG), in seconds
\* ------------------------------------------------------------------------

INITIAL_API_WAIT == 3

STUCK_THRESHOLD_REGULAR == 60

STUCK_THRESHOLD_DEEP == 120

REGULAR_MODE == <<10, 15, 20, 30, 45, 75, 120, 180, 300>>

DEEP_MODE == <<180, 240, 300, 420, 540, 720, 900>>

None == "null"

\* ------------------------------------------------------------------------
\* Text helpers
\* ------------------------------------------------------------------------

DigitChars == <<"0", "1", "2", "3", "4", "5", "6", "7", "8", "9">>

RECURSIVE Digits(_)
\* Template-literal formatting of a non-negative integer, one character per
\* element.
Digits(n) ==
    IF n < 10 THEN <<DigitChars[n + 1]>>
    ELSE Digits(n \div 10) \o <<DigitChars[(n % 10) + 1]>>

\* message.includes(needle): needle occurs as a contiguous run.
Includes(message, needle) ==
    \E i \in 1..(Len(message) - Len(needle) + 1) :
        \A k \in 1..Len(needle) : message[i + k - 1] = needle[k]

\* formatTime(seconds): "45s", "2m30s", "5m".
formatTime(seconds) ==
    IF seconds < 60 THEN Digits(seconds) \o <<"s">>
    ELSE LET mins == seconds \div 60
             secs == seconds % 60
         IN  IF secs # 0 THEN Digits(mins) \o <<"m">> \o Digits(secs) \o <<"s">>
             ELSE Digits(mins) \o <<"m">>

\* ------------------------------------------------------------------------
\* parseCustomPollSchedule
\* ------------------------------------------------------------------------

IsDigit(c) == \E d \in 1..10 : DigitChars[d] = c

DigitValue(c) == (CHOOSE d \in 1..10 : DigitChars[d] = c) - 1

\* s.trim(): leading and trailing blanks removed.
RECURSIVE Trim(_)
Trim(s) ==
    IF s = <<>> THEN s
    ELSE IF Head(s) = " " THEN Trim(Tail(s))
    ELSE IF s[Len(s)] = " " THEN Trim(SubSeq(s, 1, Len(s) - 1))
    ELSE s

RECURSIVE DigitPrefixValue(_, _)
\* The value of the longest prefix of digits of s, acc being the value read
\* so far.
DigitPrefixValue(s, acc) ==
    IF s = <<>> \/ ~IsDigit(Head(s)) THEN acc
    ELSE DigitPrefixValue(Tail(s), acc * 10 + DigitValue(Head(s)))

\* parseInt(s, 10) of an already trimmed s: an optional sign, then the
\* longest run of digits; NaN (nan = TRUE) when there is no digit there.
ParseInt(s) ==
    LET neg  == s # <<>> /\ Head(s) = "-"
        body == IF s # <<>> /\ Head(s) \in {"-", "+"} THEN Tail(s) ELSE s
    IN  IF body = <<>> \/ ~IsDigit(Head(body)) THEN [nan |-> TRUE, value |-> 0]
        ELSE IF neg THEN [nan |-> FALSE, value |-> 0 - DigitPrefixValue(body, 0)]
        ELSE [nan |-> FALSE, value |-> DigitPrefixValue(body, 0)]

RECURSIVE Insert(_, _)
Insert(x, sorted) ==
    IF sorted = <<>> THEN <<x>>
    ELSE IF x <= Head(sorted) THEN <<x>> \o sorted
    ELSE <<Head(sorted)>> \o Insert(x, Tail(sorted))

RECURSIVE SortAscending(_)
\* parsed.sort((a, b) => a - b)
SortAscending(s) ==
    IF s = <<>> THEN <<>> ELSE Insert(Head(s), SortAscending(Tail(s)))

\* An environment variable: unset (or blank), or the list of its
\* comma-separated parts (envVar.split(',')), each a list of characters.
Unset == [set |-> FALSE, parts |-> <<>>]

EnvValue(parts) == [set |-> TRUE, parts |-> parts]

parseCustomPollSchedule(envVar, defaultSchedule) ==
    IF ~envVar.set THEN defaultSchedule
    ELSE LET parsed == [i \in 1..Len(envVar.parts) |-> ParseInt(Trim(envVar.parts[i]))]
             bad    == \E i \in 1..Len(parsed) : parsed[i].nan \/ parsed[i].value <= 0
         IN  IF bad THEN defaultSchedule
             ELSE IF Len(parsed) = 0 THEN defaultSchedule
             ELSE SortAscending([i \in 1..Len(parsed) |-> parsed[i].value])

\* ------------------------------------------------------------------------
\* Messages
\* ------------------------------------------------------------------------

NoMessage == <<>>

NotFoundNeedle == <<"4", "0", "4">>

NoChromiumMessage ==
    <<"No Chromium browser found in Playwright cache. ",
      "Please run: npx playwright install chromium">>

\* `API responded with ${response.status}: ${response.statusText}`
ApiRespondedMessage(status, statusText) ==
    <<"API responded with ">> \o Digits(status) \o <<": ">> \o statusText

\* The SyntaxError of response.json() on a body that is not JSON: it quotes
\* the start of the body.
JsonSyntaxMessage(body) ==
    <<"Unexpected token '<', \"">> \o body \o <<"\" is not valid JSON">>

FetchFailedMessage == <<"fetch failed">>

\* `Query failed: ${lastQuery.error || 'Unknown error'}`
QueryFailedMessage(error) ==
    <<"Query failed: ">> \o (IF error # NoMessage THEN error ELSE <<"Unknown error">>)

ModeName(useDeep) == IF useDeep THEN "deep research" ELSE "regular"

\* A timeout message that does not say which mode timed out.
TimeoutMessageWithoutMode(useDeep) ==
    <<"Query did not complete within scheduled checks (", "scheduled", " mode).">>

\* `Query did not complete within scheduled checks (${mode} mode).`
TimeoutMessage(useDeep) ==
    <<"Query did not complete within scheduled checks (", ModeName(useDeep), " mode).">>

ExtractFailedMessage(url) == <<"Failed to extract query ID from URL: ">> \o url

ExtractDeeperFailedMessage(url) ==
    <<"Failed to extract new query ID from Go Deeper URL: ">> \o url

\* Errors raised by the browser library.
LaunchFailedMessage == <<"browserType.launch: Failed to launch">>

NewPageFailedMessage == <<"browserContext.newPage: Target closed">>

GotoFailedMessage == <<"page.goto: net::ERR_CONNECTION_RESET">>

SelectorTimeoutMessage(selector) ==
    <<"page.waitForSelector: Timeout exceeded waiting for locator ", selector>>

PressFailedMessage == <<"locator.press: Target closed">>

PageEventTimeoutMessage ==
    <<"browserContext.waitForEvent: Timeout exceeded while waiting for event page">>

EvaluateFailedMessage == <<"page.evaluate: Execution context was destroyed">>

CloseFailedMessage == <<"page.close: Protocol error">>

\* ------------------------------------------------------------------------
\* The remote engine's data
\* ------------------------------------------------------------------------

\* Remote error texts.
ErrorTexts == {<<"engine crashed">>, <<"upstream returned ", "4", "0", "4">>}

\* The identifier of the existing conversation goDeeper and sendFollowUp are
\* given, and the one the site mints for a new conversation.
GivenId == "q0"

NewId == "q1"

NewQuery == [state |-> "pending", response |-> <<>>, error |-> NoMessage]

\* The turn of the existing conversation a follow-up is sent to.
PriorQuery == [state |-> "done", response |-> <<"chunk">>, error |-> NoMessage]

\* How a pending turn ends: the state and error field the engine writes.
Finishes ==
    {[state |-> "done", error |-> NoMessage],
     [state |-> "complete", error |-> NoMessage],
     [state |-> "error", error |-> NoMessage],
     [state |-> "cancelled", error |-> NoMessage],
     [state |-> "pending", error |-> <<"engine crashed">>]}
    \cup {[state |-> "error", error |-> e] : e \in ErrorTexts}

\* The landing URL of a newly opened tab, as its path segments.
LandingUrls == {<<"search", NewId>>, <<"search", NewId, "edit">>, <<"owner", "repo">>}

\* What one GET of the status endpoint can come back with.
HttpFailures ==
    {[kind |-> "http", status |-> 404, statusText |-> <<"Not Found">>, body |-> <<>>],
     [kind |-> "http", status |-> 500, statusText |-> <<"Internal Server Error">>,
      body |-> <<>>],
     [kind |-> "network", status |-> 0, statusText |-> <<>>, body |-> <<>>],
     [kind |-> "json", status |-> 200, statusText |-> <<"OK">>, body |-> <<"<html>">>],
     [kind |-> "json", status |-> 200, statusText |-> <<"OK">>,
      body |-> <<"<h1>", "4", "0", "4", "</h1>">>]}

OkResponse == [kind |-> "ok", status |-> 200, statusText |-> <<"OK">>, body |-> <<>>]

NoResponse == [kind |-> "none", status |-> 0, statusText |-> <<>>, body |-> <<>>]

\* No status fetch is being handled.
NoAnswer == [response |-> NoResponse, queries |-> <<>>]

\* The versioned chromium directories of the installation cache: version ->
\* whether the executable is there.
InstallDirs ==
    {[v \in {} |-> TRUE],
     [v \in {1, 2} |-> v = 1],
     [v \in {1, 2} |-> TRUE]}

\* Overrides of the two schedules (DEEPWIKI_POLL_INTERVALS_REGULAR / _DEEP).
Environments ==
    {[regular |-> Unset, deep |-> Unset],
     [regular |-> EnvValue(<<<<"1", "0">>, <<"1", "5">>, <<"2", "0">>>>),
      deep |-> EnvValue(<<<<" ", "3", "0">>, <<"2", "0", "s">>>>)]}

\* ------------------------------------------------------------------------
\* State
\* ------------------------------------------------------------------------

VARIABLES
    op,                   \* the top-level operation that is called
    headless,             \* options.headless
    useDeepResearch,      \* options.useDeepResearch
    env,                  \* process.env: the two schedule overrides
    cachedExecutablePath, \* DeepwikiAutomator.cachedExecutablePath (static)
    installDir,           \* the installation cache directory
    pc,                   \* where the operation is
    browser,              \* this.browser
    page,                 \* this.page
    answerPage,           \* this.answerPage
    handles,              \* the browser process and the pages it holds
    launches,             \* number of chromium.launch calls
    toggle,               \* data-state of the #useDeep control
    clicks,               \* number of clicks on the #useDeep control
    url,                  \* landing URL of the newly opened tab
    history,              \* localStorage user_query_history: the id it holds
    queryId,              \* the identifier the operation polls
    pendingTurn,          \* a submission the engine has not yet appended
    conv,                 \* the engine's conversation for the polled id
    pollDeep,             \* fetchApiResponse's useDeepResearch
    pollSchedule,
    startTime,
    now,                  \* Date.now(), in seconds
    scheduleIndex,
    lastState,
    lastResponseLength,
    lastChangeTime,
    attempts,
    inflight,             \* the answer to the status fetch of this iteration
    console,              \* diagnostic lines written by the latest poll step
    result,               \* the value the operation's try/catch produced
    outcome               \* running, resolved (with result) or rejected

VARIABLES
    cache,                \* the files under the cache directory: path -> content
    params,               \* the parameters of the latest tool call
    effects,              \* what the latest tool call did, in order
    reply,                \* what the latest tool call handed to the host
    calls,                \* number of tool calls made
    issued,               \* the query ids successful calls handed out, and for what
    document,             \* transformedJson of the latest wiki_question call
    input,                \* the InputResponse given to transformResponse
    output                \* the OutputResponse it returned

vars ==
    <<op, headless, useDeepResearch, env, cachedExecutablePath, installDir, pc,
      browser, page, answerPage, handles, launches, toggle, clicks, url, history,
      queryId, pendingTurn, conv, pollDeep, pollSchedule, startTime, now,
      scheduleIndex, lastState, lastResponseLength, lastChangeTime, attempts,
      inflight, console, result, outcome,
      cache, params, effects, reply, calls, issued, document, input, output>>

hostVars == <<cache, params, effects, reply, calls, issued, document>>

assemblerVars == <<input, output>>

\* What no step of an engine operation changes: the parameters and the
\* environment of the call, and everything outside the engine.
callVars ==
    <<op, headless, useDeepResearch, env, installDir, hostVars, assemblerVars>>

engineVars ==
    <<op, headless, useDeepResearch, env, cachedExecutablePath, installDir, pc,
      browser, page, answerPage, handles, launches, toggle, clicks, url, history,
      queryId, pendingTurn, conv, pollDeep, pollSchedule, startTime, now,
      scheduleIndex, lastState, lastResponseLength, lastChangeTime, attempts,
      inflight, console, result, outcome>>

pollVars ==
    <<pollDeep, pollSchedule, startTime, scheduleIndex, lastState,
      lastResponseLength, lastChangeTime, attempts, inflight, console>>

sessionVars == <<browser, page, answerPage, handles, launches>>

formVars == <<toggle, clicks, url, history, queryId>>

Operations == {"askQuestion", "goDeeper", "sendFollowUp"}

\* The value of a parameter or field that is not there.
Undefined == "<undefined>"

NoFiles == <<>>

NoReply == [content |-> "", isError |-> FALSE, thrown |-> FALSE]

NoInput == [queryId |-> Undefined, references |-> <<>>, rawResponse |-> <<>>]

\* An object of JavaScript is its properties and the order they were
\* created in: referenced_files goes with the list of its keys.
NoOutput ==
    [query_id |-> Undefined, conversation |-> <<>>, repo_context_ids |-> <<>>,
     referenced_files |-> <<>>, referenced_files_keys |-> <<>>,
     full_context |-> <<>>]

\* An optional parameter holding a list: left out, or given with a value.
Absent == [given |-> FALSE, value |-> <<>>]

Given(value) == [given |-> TRUE, value |-> value]

NoParams ==
    [tool |-> "none", repo |-> Undefined, question |-> Undefined,
     queryId |-> Undefined, goDeeper |-> FALSE, followUpQuestion |-> Undefined,
     useDeepResearch |-> FALSE, saveToFile |-> Undefined, action |-> Undefined,
     includeFullConversation |-> FALSE, includeAnswer |-> TRUE,
     includeReferencesList |-> TRUE, referencesAll |-> FALSE,
     referencesNumbers |-> Absent, contextAll |-> FALSE,
     contextFiles |-> Absent, contextRanges |-> Absent,
     saveLocation |-> Undefined, chapters |-> Absent]

\* No tool call has been made.
HostIdle ==
    /\ cache = NoFiles
    /\ params = NoParams
    /\ effects = <<>>
    /\ reply = NoReply
    /\ calls = 0
    /\ issued = {}
    /\ document = NoOutput

\* transformResponse has not been given anything.
AssemblerIdle ==
    /\ input = NoInput
    /\ output = NoOutput

NoResult ==
    [success |-> FALSE, error |-> NoMessage, queryId |-> None,
     answerChunks |-> 0, references |-> 0, rawResponse |-> <<>>]

NoHandles == [browser |-> "none", form |-> "none", tab |-> "none"]

Init ==
    /\ op \in Operations
    /\ headless \in BOOLEAN
    /\ useDeepResearch \in BOOLEAN
    /\ env \in Environments
    /\ cachedExecutablePath \in {None, "chromium-2"}
    /\ installDir \in (IF cachedExecutablePath = None THEN InstallDirs
                       ELSE {[v \in {1, 2} |-> TRUE]})
    /\ pc = "init"
    /\ browser = None
    /\ page = None
    /\ answerPage = None
    /\ handles = NoHandles
    /\ launches = 0
    /\ toggle \in (IF useDeepResearch /\ op # "goDeeper"
                   THEN {"unchecked", "checked"} ELSE {"unchecked"})
    /\ clicks = 0
    /\ url = <<>>
    /\ history = None
    /\ queryId = (IF op = "askQuestion" THEN None ELSE GivenId)
    /\ pendingTurn = FALSE
    /\ conv = (IF op = "sendFollowUp" THEN <<PriorQuery>> ELSE <<>>)
    /\ pollDeep = FALSE
    /\ pollSchedule = <<>>
    /\ startTime = 0
    /\ now = 0
    /\ scheduleIndex = 0
    /\ lastState = ""
    /\ lastResponseLength = 0
    /\ lastChangeTime = 0
    /\ attempts = 0
    /\ inflight = NoAnswer
    /\ console = <<>>
    /\ result = NoResult
    /\ outcome = "running"
    /\ HostIdle
    /\ AssemblerIdle

\* No engine operation is running.
EngineIdle ==
    /\ op = "askQuestion"
    /\ headless = TRUE
    /\ useDeepResearch = FALSE
    /\ env = [regular |-> Unset, deep |-> Unset]
    /\ cachedExecutablePath = None
    /\ installDir = <<>>
    /\ pc = "idle"
    /\ browser = None
    /\ page = None
    /\ answerPage = None
    /\ handles = NoHandles
    /\ launches = 0
    /\ toggle = "unchecked"
    /\ clicks = 0
    /\ url = <<>>
    /\ history = None
    /\ queryId = None
    /\ pendingTurn = FALSE
    /\ conv = <<>>
    /\ pollDeep = FALSE
    /\ pollSchedule = <<>>
    /\ startTime = 0
    /\ now = 0
    /\ scheduleIndex = 0
    /\ lastState = ""
    /\ lastResponseLength = 0
    /\ lastChangeTime = 0
    /\ attempts = 0
    /\ inflight = NoAnswer
    /\ console = <<>>
    /\ result = NoResult
    /\ outcome = "running"

\* ------------------------------------------------------------------------
\* The operation boundary: try / catch / finally
\* ------------------------------------------------------------------------

\* catch (error) { return { success: false, error: error.message } }
Failure(message) == [NoResult EXCEPT !.error = message]

\* A throw inside the try block: the catch block builds the failure Result
\* and control passes to the finally block.
Throw(message) ==
    /\ result' = Failure(message)
    /\ pc' = "finally"

\* ------------------------------------------------------------------------
\* Session acquisition
\* ------------------------------------------------------------------------

MaxVersion(dir) == CHOOSE v \in DOMAIN dir : \A w \in DOMAIN dir : w <= v

ChromiumPaths == <<"chromium-1", "chromium-2">>

\* The path of the newest versioned directory's executable if that file
\* exists, and undefined otherwise.
findChromiumExecutable(dir) ==
    IF DOMAIN dir # {} /\ dir[MaxVersion(dir)] THEN ChromiumPaths[MaxVersion(dir)]
    ELSE None

\* A guard that lets an unresolved executable through to the launch.
ExecutableMissingIgnored(executablePath) == FALSE

\* if (!executablePath) throw
ExecutableMissing(executablePath) == executablePath = None

\* initBrowser: resolve the executable, launch, open a context and a page.
InitBrowser ==
    /\ pc = "init"
    /\ LET executablePath ==
               IF cachedExecutablePath # None THEN cachedExecutablePath
               ELSE findChromiumExecutable(installDir)
       IN  /\ cachedExecutablePath' = executablePath
           /\ IF ExecutableMissing(executablePath)
              THEN /\ Throw(NoChromiumMessage)
                   /\ UNCHANGED sessionVars
              ELSE \/ \* chromium.launch rejects
                      /\ Throw(LaunchFailedMessage)
                      /\ launches' = launches + 1
                      /\ UNCHANGED <<browser, page, answerPage, handles>>
                   \/ \* newContext or newPage rejects
                      /\ Throw(NewPageFailedMessage)
                      /\ launches' = launches + 1
                      /\ browser' = "browser"
                      /\ handles' = [handles EXCEPT !.browser = "open"]
                      /\ UNCHANGED <<page, answerPage>>
                   \/ /\ launches' = launches + 1
                      /\ browser' = "browser"
                      /\ page' = "form"
                      /\ handles' = [handles EXCEPT !.browser = "open", !.form = "open"]
                      /\ pc' = "open"
                      /\ UNCHANGED <<answerPage, result>>
    /\ UNCHANGED <<callVars, formVars, pendingTurn, conv, pollVars, now, outcome>>

\* ------------------------------------------------------------------------
\* Page interaction
\* ------------------------------------------------------------------------

AfterForm == IF useDeepResearch THEN "deep" ELSE "submit"

\* askQuestion: open the repository page, wait for the form, fill it.
AskOpenForm ==
    /\ pc = "open"
    /\ op = "askQuestion"
    /\ \/ Throw(GotoFailedMessage)
       \/ Throw(SelectorTimeoutMessage("form textarea"))
       \/ pc' = AfterForm /\ UNCHANGED result
    /\ UNCHANGED <<callVars, cachedExecutablePath, sessionVars, formVars,
                   pendingTurn, conv, pollVars, now, outcome>>

\* sendFollowUp: seed the history by an init script, open the query page,
\* wait for the form, fill it.
FollowUpOpenForm ==
    /\ pc = "open"
    /\ op = "sendFollowUp"
    /\ \/ Throw(GotoFailedMessage) /\ UNCHANGED history
       \/ Throw(SelectorTimeoutMessage("form textarea")) /\ history' = queryId
       \/ pc' = AfterForm /\ history' = queryId /\ UNCHANGED result
    /\ UNCHANGED <<callVars, cachedExecutablePath, sessionVars, toggle, clicks,
                   url, queryId, pendingTurn, conv, pollVars, now, outcome>>

\* goDeeper: open the query page, wait for the "Go deeper" button, click it.
GoDeeperClick ==
    /\ pc = "open"
    /\ op = "goDeeper"
    /\ \/ Throw(GotoFailedMessage) /\ UNCHANGED pendingTurn
       \/ /\ Throw(SelectorTimeoutMessage("button:has-text(\"Go deeper\")"))
          /\ UNCHANGED pendingTurn
       \/ pc' = "newPage" /\ pendingTurn' = TRUE /\ UNCHANGED result
    /\ UNCHANGED <<callVars, cachedExecutablePath, sessionVars, formVars, conv,
                   pollVars, now, outcome>>

\* enableDeepResearch: click the toggle unless it reports "checked".  What
\* the control reports after the click is the site's business.
enableDeepResearch ==
    /\ pc = "deep"
    /\ \/ /\ Throw(SelectorTimeoutMessage("#useDeep"))
          /\ UNCHANGED <<toggle, clicks>>
       \/ /\ toggle = "checked"
          /\ pc' = "submit"
          /\ UNCHANGED <<toggle, clicks, result>>
       \/ /\ toggle # "checked"
          /\ toggle' \in {"checked", "unchecked"}
          /\ clicks' = clicks + 1
          /\ pc' = "submit"
          /\ UNCHANGED result
    /\ UNCHANGED <<callVars, cachedExecutablePath, sessionVars, url, history,
                   queryId, pendingTurn, conv, pollVars, now, outcome>>

\* textarea.press('Enter')
Submit ==
    /\ pc = "submit"
    /\ \/ Throw(PressFailedMessage) /\ UNCHANGED pendingTurn
       \/ /\ pendingTurn' = TRUE
          /\ pc' = (IF op = "askQuestion" THEN "newPage" ELSE "initialWait")
          /\ UNCHANGED result
    /\ UNCHANGED <<callVars, cachedExecutablePath, sessionVars, formVars, conv,
                   pollVars, now, outcome>>

\* waitForEvent('page') and waitForLoadState on the new tab.
WaitNewPage ==
    /\ pc = "newPage"
    /\ \/ /\ Throw(PageEventTimeoutMessage)
          /\ UNCHANGED <<handles, url>>
       \/ /\ Throw(NewPageFailedMessage)
          /\ handles' = [handles EXCEPT !.tab = "open"]
          /\ UNCHANGED url
       \/ /\ handles' = [handles EXCEPT !.tab = "open"]
          /\ url' \in LandingUrls
          /\ pc' = "extract"
          /\ UNCHANGED result
    /\ UNCHANGED <<callVars, cachedExecutablePath, browser, page, answerPage,
                   launches, toggle, clicks, history, queryId, pendingTurn, conv,
                   pollVars, now, outcome>>

\* An extraction that takes the last path segment of any address.
extractQueryIdLastSegment(u) == IF Len(u) >= 1 THEN u[Len(u)] ELSE None

\* url.match(/search\/([^/]+)$/): the last path segment, when the segment
\* before it is "search".
extractQueryId(u) ==
    IF Len(u) >= 2 /\ u[Len(u) - 1] = "search" THEN u[Len(u)] ELSE None

ExtractId ==
    /\ pc = "extract"
    /\ LET id == extractQueryId(url)
       IN  IF id = None
           THEN /\ Throw(IF op = "goDeeper" THEN ExtractDeeperFailedMessage(url)
                         ELSE ExtractFailedMessage(url))
                /\ UNCHANGED queryId
           ELSE /\ queryId' = id
                /\ pc' = (IF op = "askQuestion" THEN "seed" ELSE "closeNew")
                /\ UNCHANGED result
    /\ UNCHANGED <<callVars, cachedExecutablePath, sessionVars, toggle, clicks,
                   url, history, pendingTurn, conv, pollVars, now, outcome>>

\* askQuestion: newPage.evaluate(...) writes user_query_history.
SeedHistory ==
    /\ pc = "seed"
    /\ \/ Throw(EvaluateFailedMessage) /\ UNCHANGED history
       \/ history' = queryId /\ pc' = "closeNew" /\ UNCHANGED result
    /\ UNCHANGED <<callVars, cachedExecutablePath, sessionVars, toggle, clicks,
                   url, queryId, pendingTurn, conv, pollVars, now, outcome>>

\* Headed: keep the tab as this.answerPage.  Headless: close it.
CloseNewPage ==
    /\ pc = "closeNew"
    /\ IF ~headless
       THEN /\ answerPage' = "tab"
            /\ pc' = "initialWait"
            /\ UNCHANGED <<handles, result>>
       ELSE \/ /\ Throw(CloseFailedMessage)
               /\ UNCHANGED <<handles, answerPage>>
            \/ /\ handles' = [handles EXCEPT !.tab = "closed"]
               /\ pc' = "initialWait"
               /\ UNCHANGED <<answerPage, result>>
    /\ UNCHANGED <<callVars, cachedExecutablePath, browser, page, launches,
                   formVars, pendingTurn, conv, pollVars, now, outcome>>

\* page.waitForTimeout(INITIAL_API_WAIT)
InitialWait ==
    /\ pc = "initialWait"
    /\ now' = now + INITIAL_API_WAIT
    /\ pc' = "pollStart"
    /\ UNCHANGED <<callVars, cachedExecutablePath, sessionVars, formVars,
                   pendingTurn, conv, pollVars, result, outcome>>

\* ------------------------------------------------------------------------
\* The remote engine
\* ------------------------------------------------------------------------

LastQuery(queries) == queries[Len(queries)]

\* The engine's progress matters for as long as the operation may still
\* fetch its status.
EngineObserved == pc \notin {"finally", "done"}

\* The engine appends the submitted turn to the conversation.
ServerAppendTurn ==
    /\ EngineObserved
    /\ pendingTurn
    /\ pendingTurn' = FALSE
    /\ conv' = Append(conv, NewQuery)
    /\ UNCHANGED <<callVars, cachedExecutablePath, pc, sessionVars, formVars,
                   pollVars, now, result, outcome>>

NextFragment(response) == IF Len(response) % 2 = 0 THEN "chunk" ELSE "reference"

\* The engine streams one more fragment into the pending turn.
ServerStream ==
    /\ EngineObserved
    /\ conv # <<>>
    /\ LastQuery(conv).state = "pending"
    /\ LastQuery(conv).error = NoMessage
    /\ Len(LastQuery(conv).response) < MaxFragments
    /\ conv' = [conv EXCEPT ![Len(conv)].response =
                    Append(@, NextFragment(LastQuery(conv).response))]
    /\ UNCHANGED <<callVars, cachedExecutablePath, pc, sessionVars, formVars,
                   pendingTurn, pollVars, now, result, outcome>>

\* The engine ends the pending turn.
ServerFinish ==
    /\ EngineObserved
    /\ conv # <<>>
    /\ LastQuery(conv).state = "pending"
    /\ LastQuery(conv).error = NoMessage
    /\ \E f \in Finishes :
           conv' = [conv EXCEPT ![Len(conv)].state = f.state,
                                ![Len(conv)].error = f.error]
    /\ UNCHANGED <<callVars, cachedExecutablePath, pc, sessionVars, formVars,
                   pendingTurn, pollVars, now, result, outcome>>

\* ------------------------------------------------------------------------
\* The polling loop (fetchApiResponse)
\* ------------------------------------------------------------------------

\* The mode of an operation that passes on what its caller asked for.
PollModeAsPassed == useDeepResearch

\* The mode each operation passes to fetchApiResponse.
PollMode == IF op = "goDeeper" THEN TRUE ELSE useDeepResearch

SelectSchedule(useDeep) ==
    IF useDeep THEN parseCustomPollSchedule(env.deep, DEEP_MODE)
    ELSE parseCustomPollSchedule(env.regular, REGULAR_MODE)

\* A threshold that is the regular one in both modes.
StuckThresholdRegularOnly(useDeep) == STUCK_THRESHOLD_REGULAR

StuckThreshold(useDeep) ==
    IF useDeep THEN STUCK_THRESHOLD_DEEP ELSE STUCK_THRESHOLD_REGULAR

\* fetchApiResponse up to its loop.
StartPolling ==
    /\ pc = "pollStart"
    /\ pollDeep' = PollMode
    /\ pollSchedule' = SelectSchedule(PollMode)
    /\ startTime' = now
    /\ scheduleIndex' = 0
    /\ lastState' = ""
    /\ lastResponseLength' = 0
    /\ lastChangeTime' = now
    /\ attempts' = 0
    /\ pc' = "pollWait"
    /\ UNCHANGED <<callVars, cachedExecutablePath, sessionVars, formVars,
                   pendingTurn, conv, now, inflight, console, result, outcome>>

\* A wait that returns at once.
NextCheckTimeNoWait(start, index, schedule, current) == current

\* The time waitForNextScheduledCheck returns at: the scheduled time, or at
\* once when that time has passed.  scheduleIndex counts from 0.
NextCheckTime(start, index, schedule, current) ==
    LET nextCheckTime == start + schedule[index + 1]
    IN  IF current < nextCheckTime THEN nextCheckTime ELSE current

\* The head of the loop body: wait for the scheduled time, count the attempt.
waitForNextScheduledCheck ==
    /\ pc = "pollWait"
    /\ scheduleIndex < Len(pollSchedule)
    /\ now' = NextCheckTime(startTime, scheduleIndex, pollSchedule, now)
    /\ attempts' = attempts + 1
    /\ console' = <<>>
    /\ inflight' = NoAnswer
    /\ pc' = "pollFetch"
    /\ UNCHANGED <<callVars, cachedExecutablePath, sessionVars, formVars,
                   pendingTurn, conv, pollDeep, pollSchedule, startTime,
                   scheduleIndex, lastState, lastResponseLength, lastChangeTime,
                   result, outcome>>

\* The GET of the status endpoint is sent and answered.
FetchStatus ==
    /\ pc = "pollFetch"
    /\ \E delay \in {0, MaxFetchDelay} : now' = now + delay
    /\ \/ \E r \in HttpFailures : inflight' = [response |-> r, queries |-> <<>>]
       \/ inflight' = [response |-> OkResponse, queries |-> conv]
    /\ pc' = "pollClassify"
    /\ UNCHANGED <<callVars, cachedExecutablePath, sessionVars, formVars,
                   pendingTurn, conv, pollDeep, pollSchedule, startTime,
                   scheduleIndex, lastState, lastResponseLength, lastChangeTime,
                   attempts, console, result, outcome>>

\* checkApiProgress: what the awaited fetch and response.json() produce.
checkApiProgress(r) ==
    IF r.kind = "network" THEN [ok |-> FALSE, message |-> FetchFailedMessage]
    ELSE IF ~(r.status >= 200 /\ r.status <= 299)
    THEN [ok |-> FALSE, message |-> ApiRespondedMessage(r.status, r.statusText)]
    ELSE IF r.kind = "json" THEN [ok |-> FALSE, message |-> JsonSyntaxMessage(r.body)]
    ELSE [ok |-> TRUE, message |-> NoMessage]

\* A progress detection that looks at the state alone.
detectProgressChangesStateOnly(lastQuery, prevState, prevLength, prevChangeTime, current) ==
    IF lastQuery.state # prevState
    THEN [newState |-> lastQuery.state, newLength |-> Len(lastQuery.response),
          newChangeTime |-> current]
    ELSE [newState |-> prevState, newLength |-> prevLength,
          newChangeTime |-> prevChangeTime]

detectProgressChanges(lastQuery, prevState, prevLength, prevChangeTime, current) ==
    LET currentResponseLength == Len(lastQuery.response)
        stateChanged == lastQuery.state # prevState
        responseGrew == currentResponseLength > prevLength
    IN  IF stateChanged \/ responseGrew
        THEN [newState |-> IF stateChanged THEN lastQuery.state ELSE prevState,
              newLength |-> currentResponseLength,
              newChangeTime |-> current]
        ELSE [newState |-> prevState, newLength |-> prevLength,
              newChangeTime |-> prevChangeTime]

\* checkIfStuck: the warning lines it writes, if any.
checkIfStuck(lastQuery, changeTime, stuckThreshold, current) ==
    IF current - changeTime > stuckThreshold /\ lastQuery.state = "pending"
    THEN <<<<"Warning: No changes detected for ">> \o formatTime(current - changeTime)>>
    ELSE <<>>

\* A classification that knows only 'done'.
IsTerminalSuccessDoneOnly(lastQuery) == lastQuery.state = "done"

\* lastQuery.state === 'done' || lastQuery.state === 'complete'
IsTerminalSuccess(lastQuery) == lastQuery.state = "done" \/ lastQuery.state = "complete"

\* A classification that takes every state it does not know for a failure.
IsTerminalFailureOrUnknown(lastQuery) ==
    lastQuery.state # "pending" \/ lastQuery.error # NoMessage

\* lastQuery.state === 'error' || lastQuery.error
IsTerminalFailure(lastQuery) == lastQuery.state = "error" \/ lastQuery.error # NoMessage

\* A not-ready test that never matches.
IsNotReadyNever(message) == FALSE

\* error.message.includes('404')
IsNotReady(message) == Includes(message, NotFoundNeedle)

CountFragments(queries, type) ==
    LET RECURSIVE Count(_)
        Count(i) ==
            IF i = 0 THEN 0
            ELSE Count(i - 1)
                 + Cardinality({k \in 1..Len(queries[i].response) :
                                    queries[i].response[k] = type})
    IN  Count(Len(queries))

\* The fields of the answer are kept as counts of the fragments they are
\* built from; rawResponse is the list of queries itself.
extractDataFromAllQueries(queries) ==
    [answerChunks |-> CountFragments(queries, "chunk"),
     references |-> CountFragments(queries, "reference"),
     rawResponse |-> queries]

\* { success: true, queryId, ...apiResponse }
Success(id, apiResponse) ==
    [success |-> TRUE, error |-> NoMessage, queryId |-> id,
     answerChunks |-> apiResponse.answerChunks,
     references |-> apiResponse.references,
     rawResponse |-> apiResponse.rawResponse]

\* What the try block of one loop iteration does with the fetched answer:
\* return, throw or fall through to the next scheduled check.
TryCheck(answer) ==
    LET fetched == checkApiProgress(answer.response)
    IN  IF ~fetched.ok THEN [kind |-> "throw", message |-> fetched.message]
        ELSE IF answer.queries = <<>> THEN [kind |-> "next", message |-> NoMessage]
        ELSE IF IsTerminalSuccess(LastQuery(answer.queries))
        THEN [kind |-> "return", message |-> NoMessage]
        ELSE IF IsTerminalFailure(LastQuery(answer.queries))
        THEN [kind |-> "throw",
              message |-> QueryFailedMessage(LastQuery(answer.queries).error)]
        ELSE [kind |-> "next", message |-> NoMessage]

\* The catch block of the loop: an error whose message includes '404' is
\* swallowed, any other is thrown on.
CatchCheck(tried) ==
    IF tried.kind = "throw" /\ IsNotReady(tried.message)
    THEN [kind |-> "next", message |-> NoMessage]
    ELSE tried

\* lastState, lastResponseLength and lastChangeTime are locals of
\* fetchApiResponse that nothing reads once it has returned or thrown: they
\* are forgotten there.
TrackingDropped ==
    /\ lastState' = ""
    /\ lastResponseLength' = 0
    /\ lastChangeTime' = 0

\* The rest of the loop body: classify the answer, move to the next check.
ClassifyCheck ==
    /\ pc = "pollClassify"
    /\ LET valid   == checkApiProgress(inflight.response).ok /\ inflight.queries # <<>>
           changes == detectProgressChanges(LastQuery(inflight.queries), lastState,
                                            lastResponseLength, lastChangeTime, now)
           step    == CatchCheck(TryCheck(inflight))
       IN  /\ IF valid
              THEN console' = checkIfStuck(LastQuery(inflight.queries),
                                           changes.newChangeTime,
                                           StuckThreshold(pollDeep), now)
              ELSE UNCHANGED console
           /\ IF step.kind # "next" THEN TrackingDropped
              ELSE IF valid
              THEN /\ lastState' = changes.newState
                   /\ lastResponseLength' = changes.newLength
                   /\ lastChangeTime' = changes.newChangeTime
              ELSE UNCHANGED <<lastState, lastResponseLength, lastChangeTime>>
           /\ IF step.kind = "return"
              THEN /\ result' = Success(queryId, extractDataFromAllQueries(inflight.queries))
                   /\ pc' = "finally"
                   /\ UNCHANGED scheduleIndex
              ELSE IF step.kind = "throw"
              THEN /\ Throw(step.message)
                   /\ UNCHANGED scheduleIndex
              ELSE /\ scheduleIndex' = scheduleIndex + 1
                   /\ pc' = "pollWait"
                   /\ UNCHANGED result
    /\ UNCHANGED <<callVars, cachedExecutablePath, sessionVars, formVars,
                   pendingTurn, conv, pollDeep, pollSchedule, startTime, now,
                   attempts, inflight, outcome>>

\* What is written to the console when the schedule is exhausted.
ExhaustedLines(elapsedTotal, tries, state, length) ==
    <<<<"All scheduled checks completed after ">> \o formatTime(elapsedTotal)
        \o <<" (">> \o Digits(tries) \o <<" attempts)">>,
      <<"Last state: ", IF state # "" THEN state ELSE "unknown">>,
      <<"Response items collected: ">> \o Digits(length)>>

\* The loop ends with every scheduled check used.
ScheduleExhausted ==
    /\ pc = "pollWait"
    /\ ~(scheduleIndex < Len(pollSchedule))
    /\ console' = ExhaustedLines(now - startTime, attempts, lastState, lastResponseLength)
    /\ Throw(TimeoutMessage(pollDeep))
    /\ TrackingDropped
    /\ UNCHANGED <<callVars, cachedExecutablePath, sessionVars, formVars,
                   pendingTurn, conv, pollDeep, pollSchedule, startTime, now,
                   scheduleIndex, attempts, inflight, outcome>>

\* ------------------------------------------------------------------------
\* Teardown
\* ------------------------------------------------------------------------

\* browser.close() closes the browser and every page it holds; page.close()
\* closes that page.
CloseHandle(h, name) ==
    IF name = "browser"
    THEN [k \in DOMAIN h |-> IF h[k] = "open" THEN "closed" ELSE h[k]]
    ELSE [h EXCEPT ![name] = "closed"]

\* One `if (this.x) { await this.x.close(); this.x = null; }` of cleanup; a
\* close that rejects ends cleanup there.
CloseStep(st, field, rejects) ==
    IF st.failed \/ st[field] = None THEN st
    ELSE IF rejects THEN [st EXCEPT !.failed = TRUE]
    ELSE [st EXCEPT ![field] = None, !.handles = CloseHandle(st.handles, st[field])]

cleanup(st, rejects) ==
    CloseStep(CloseStep(CloseStep(st, "answerPage", rejects[1]),
                        "page", rejects[2]),
              "browser", rejects[3])

\* The finally block: cleanup in headless mode only.  An error thrown by
\* cleanup replaces the value the try/catch produced.
Finally ==
    /\ pc = "finally"
    /\ IF headless
       THEN \E rejects \in [1..3 -> BOOLEAN] :
               LET st == cleanup([answerPage |-> answerPage, page |-> page,
                                  browser |-> browser, handles |-> handles,
                                  failed |-> FALSE], rejects)
               IN  /\ answerPage' = st.answerPage
                   /\ page' = st.page
                   /\ browser' = st.browser
                   /\ handles' = st.handles
                   /\ outcome' = (IF st.failed THEN "rejected" ELSE "resolved")
       ELSE /\ outcome' = "resolved"
            /\ UNCHANGED <<browser, page, answerPage, handles>>
    /\ pc' = "done"
    /\ UNCHANGED <<callVars, cachedExecutablePath, launches, formVars,
                   pendingTurn, conv, pollVars, now, result>>

Next ==
    \/ InitBrowser
    \/ AskOpenForm
    \/ FollowUpOpenForm
    \/ GoDeeperClick
    \/ enableDeepResearch
    \/ Submit
    \/ WaitNewPage
    \/ ExtractId
    \/ SeedHistory
    \/ CloseNewPage
    \/ InitialWait
    \/ ServerAppendTurn
    \/ ServerStream
    \/ ServerFinish
    \/ StartPolling
    \/ waitForNextScheduledCheck
    \/ FetchStatus
    \/ ClassifyCheck
    \/ ScheduleExhausted
    \/ Finally

Spec == Init /\ [][Next]_vars

\* ------------------------------------------------------------------------
\* Strings
\* ------------------------------------------------------------------------

RECURSIVE IndexFrom(_, _, _)
\* s.indexOf(needle, from), counting from 1; 0 when there is none.
IndexFrom(s, needle, from) ==
    IF from + Len(needle) - 1 > Len(s) THEN 0
    ELSE IF SubSeq(s, from, from + Len(needle) - 1) = needle THEN from
    ELSE IndexFrom(s, needle, from + 1)

\* s.includes(needle)
StrIncludes(s, needle) == IndexFrom(s, needle, 1) # 0

RECURSIVE LastIndexBelow(_, _, _)
\* s.lastIndexOf(needle), counting from 1; 0 when there is none.
LastIndexBelow(s, needle, from) ==
    IF from < 1 THEN 0
    ELSE IF from + Len(needle) - 1 <= Len(s)
            /\ SubSeq(s, from, from + Len(needle) - 1) = needle THEN from
    ELSE LastIndexBelow(s, needle, from - 1)

\* s.substring(from) with from counted from 1.
StrFrom(s, from) == IF from > Len(s) THEN "" ELSE SubSeq(s, from, Len(s))

\* The first n characters of s.
StrUpTo(s, n) == IF n < 1 THEN "" ELSE SubSeq(s, 1, n)

RECURSIVE Split(_, _)
\* s.split(sep)
Split(s, sep) ==
    LET i == IndexFrom(s, sep, 1)
    IN  IF i = 0 THEN <<s>>
        ELSE <<StrUpTo(s, i - 1)>> \o Split(StrFrom(s, i + Len(sep)), sep)

RECURSIVE Join(_, _)
\* parts.join(sep)
Join(parts, sep) ==
    IF parts = <<>> THEN ""
    ELSE IF Len(parts) = 1 THEN parts[1]
    ELSE parts[1] \o sep \o Join(Tail(parts), sep)

RECURSIVE NumStr(_)
\* `${n}` of a non-negative integer.
NumStr(n) ==
    IF n < 10 THEN DigitChars[n + 1]
    ELSE NumStr(n \div 10) \o DigitChars[(n % 10) + 1]

RECURSIVE SkipWhile(_, _, _)
\* The first position at or after from whose character is not in chars.
SkipWhile(s, from, chars) ==
    IF from <= Len(s) /\ SubSeq(s, from, from) \in chars
    THEN SkipWhile(s, from + 1, chars)
    ELSE from

RECURSIVE SkipUntil(_, _, _)
\* The first position at or after from whose character is in chars, or
\* Len(s) + 1.
SkipUntil(s, from, chars) ==
    IF from <= Len(s) /\ SubSeq(s, from, from) \notin chars
    THEN SkipUntil(s, from + 1, chars)
    ELSE from

\* s.replace(/^\n+/, '')
StripLeadingNewlines(s) == StrFrom(s, SkipWhile(s, 1, {"\n"}))

\* ------------------------------------------------------------------------
\* The response assembler: transformResponse
\* ------------------------------------------------------------------------

\* A numeric field that is not there.
NoNumber == -1

\* The data of a fragment: a chunk has text, a reference a file path and a
\* range, a file capture a repository, a file name and the file's content.
NoData ==
    [text |-> "", file_path |-> "", range_start |-> NoNumber, range_end |-> NoNumber,
     repo |-> "", filename |-> "", content |-> ""]

Chunk(text) == [type |-> "chunk", data |-> [NoData EXCEPT !.text = text]]

Reference(path, rangeStart, rangeEnd) ==
    [type |-> "reference",
     data |-> [NoData EXCEPT !.file_path = path, !.range_start = rangeStart,
                             !.range_end = rangeEnd]]

FileCapture(repo, filename, content) ==
    [type |-> "file_contents",
     data |-> [NoData EXCEPT !.repo = repo, !.filename = filename,
                             !.content = content]]

Stats == [type |-> "stats", data |-> NoData]

\* x || 0 of a numeric field.
OrZero(x) == IF x = NoNumber THEN 0 ELSE x

\* filePath.match(/Repo\s+([^:]+):\s+([^:]+)(?::\d+-\d+)?/) at the first
\* "Repo" it can match at: the two groups.  The white space after "Repo" and
\* after the colon is taken whole, which is what the expression does when
\* the text after it does not begin with a colon.
RECURSIVE MatchRepoFrom(_, _)
MatchRepoFrom(filePath, from) ==
    LET at       == IndexFrom(filePath, "Repo", from)
        repoAt   == SkipWhile(filePath, at + 4, {" "})
        colonAt  == SkipUntil(filePath, repoAt, {":"})
        fileAt   == SkipWhile(filePath, colonAt + 1, {" "})
        fileEnd  == SkipUntil(filePath, fileAt, {":"})
    IN  IF at = 0 THEN [matched |-> FALSE, repo |-> "", file |-> ""]
        ELSE IF /\ repoAt > at + 4
                /\ colonAt > repoAt
                /\ colonAt <= Len(filePath)
                /\ fileAt > colonAt + 1
                /\ fileEnd > fileAt
        THEN [matched |-> TRUE,
              repo |-> SubSeq(filePath, repoAt, colonAt - 1),
              file |-> SubSeq(filePath, fileAt, fileEnd - 1)]
        ELSE MatchRepoFrom(filePath, at + 1)

MatchRepo(filePath) == MatchRepoFrom(filePath, 1)

\* `:${rangeStart}-${rangeEnd}`, when both are there.
RangeSuffix(rangeStart, rangeEnd) ==
    IF rangeStart # NoNumber /\ rangeEnd # NoNumber
    THEN ":" \o NumStr(rangeStart) \o "-" \o NumStr(rangeEnd)
    ELSE ""

\* The reference string of an answer segment.
ReferenceString(filePath, rangeStart, rangeEnd) ==
    IF StrIncludes(filePath, "Repo ")
    THEN LET match == MatchRepo(filePath)
         IN  IF match.matched
             THEN match.repo \o ": " \o match.file \o RangeSuffix(rangeStart, rangeEnd)
             ELSE filePath
    ELSE LET parts == Split(filePath, "/")
         IN  IF Len(parts) >= 3
             THEN Join(SubSeq(parts, 1, 2), "/") \o ": "
                  \o Join(SubSeq(parts, 3, Len(parts)), "/")
                  \o RangeSuffix(rangeStart, rangeEnd)
             ELSE filePath \o RangeSuffix(rangeStart, rangeEnd)

\* item.type === 'chunk' && item.data && typeof item.data === 'string'
IsChunk(item) == item.type = "chunk" /\ item.data.text # ""

\* A walk that lets only citations with a proper range close a segment.
IsReferenceRanged(item) ==
    item.type = "reference" /\ ~(item.data.range_start = 0 /\ item.data.range_end = 0)

\* item.type === 'reference' && item.data is an object
IsReference(item) == item.type = "reference"

\* item.type === 'file_contents' && Array.isArray(item.data)
IsFileContents(item) == item.type = "file_contents"

RECURSIVE Segments(_, _, _)
\* The walk over one query's fragments from position i on, with the text
\* accumulated in currentChunks: the answer segments it produces.
Segments(responseItems, i, currentChunks) ==
    IF i > Len(responseItems)
    THEN IF currentChunks # <<>>
         THEN <<[text |-> Join(currentChunks, ""), reference |-> Undefined]>>
         ELSE <<>>
    ELSE LET item == responseItems[i]
         IN  IF IsChunk(item)
             THEN Segments(responseItems, i + 1, Append(currentChunks, item.data.text))
             ELSE IF IsReference(item) /\ currentChunks # <<>>
             THEN <<[text |-> Join(currentChunks, ""),
                     reference |-> ReferenceString(item.data.file_path,
                                                   item.data.range_start,
                                                   item.data.range_end)]>>
                  \o Segments(responseItems, i + 1, <<>>)
             ELSE Segments(responseItems, i + 1, currentChunks)

\* One entry of the conversation.
ConversationQuery(query) ==
    [user_query |-> query.user_query,
     answer_segments |-> Segments(query.response, 1, <<>>)]

SearchPattern == "Searching codebase..."

\* The text of the first segment without the progress lines the engine
\* echoes: what follows the line of the last "Searching codebase...".
WithoutPreamble(text) ==
    IF ~StrIncludes(text, SearchPattern) THEN text
    ELSE LET lastIndex == LastIndexBelow(text, SearchPattern, Len(text))
             newline   == IndexFrom(text, "\n", lastIndex)
             endOfLine == IF newline = 0 THEN Len(text) + 1 ELSE newline
         IN  StripLeadingNewlines(StrFrom(text, endOfLine + 1))

\* The conversation with the preamble of its very first segment removed.
FilterPreamble(conversation) ==
    IF /\ conversation # <<>>
       /\ conversation[1].answer_segments # <<>>
       /\ conversation[1].answer_segments[1].text # ""
    THEN [conversation EXCEPT ![1].answer_segments[1].text = WithoutPreamble(@)]
    ELSE conversation

\* All fragments of all queries, in order.
RECURSIVE AllItems(_)
AllItems(queries) ==
    IF queries = <<>> THEN <<>>
    ELSE Head(queries).response \o AllItems(Tail(queries))

\* `${repoPath}/${filename}` of a file capture.
CapturePath(item) == item.data.repo \o "/" \o item.data.filename

\* output.full_context
FullContext(queries) ==
    LET items == SelectSeq(AllItems(queries), IsFileContents)
    IN  [i \in 1..Len(items) |->
            [file_name |-> CapturePath(items[i]), text |-> items[i].data.content]]

\* fileContentMap[path]: the lines of the last capture of that path.
FileLines(queries, path) ==
    LET items == SelectSeq(AllItems(queries),
                           LAMBDA item : IsFileContents(item)
                                         /\ CapturePath(item) = path)
    IN  IF items = <<>> THEN <<>> ELSE Split(items[Len(items)].data.content, "\n")

HasCapture(queries, path) ==
    \E i \in 1..Len(AllItems(queries)) :
        /\ IsFileContents(AllItems(queries)[i])
        /\ CapturePath(AllItems(queries)[i]) = path

\* A reference that is kept whatever its range.
IsDegenerateNever(ref) == FALSE

\* ref.range_start === 0 && ref.range_end === 0
IsDegenerate(ref) == ref.range_start = 0 /\ ref.range_end = 0

\* The key of a reference in referenced_files.
ReferencedPath(ref) ==
    IF StrIncludes(ref.file_path, "Repo ") /\ MatchRepo(ref.file_path).matched
    THEN MatchRepo(ref.file_path).repo \o "/" \o MatchRepo(ref.file_path).file
    ELSE ref.file_path

Min(a, b) == IF a < b THEN a ELSE b

Max(a, b) == IF a > b THEN a ELSE b

\* A cut that ends at the cited end line.
ReferenceMaterialToEndLine(fileLines, ref) ==
    LET startLine == Max(0, ref.range_start - 1)
        endLine   == Min(Len(fileLines) - 1, ref.range_end - 1)
    IN  IF startLine <= endLine
        THEN Join(SubSeq(fileLines, startLine + 1, endLine + 1), "\n")
        ELSE ""

\* The text cut out of a capture for one reference.
ReferenceMaterial(fileLines, ref) ==
    LET startLine == Max(0, ref.range_start - 1)
        endLine   == Min(Len(fileLines) - 1, ref.range_end)
    IN  IF startLine <= endLine
        THEN Join(SubSeq(fileLines, startLine + 1, endLine + 1), "\n")
        ELSE ""

\* output.referenced_files: for each path the entries of its references
\* that are kept, in the order of input.references.
ReferencedFiles(references, queries) ==
    LET kept  == SelectSeq(references, LAMBDA ref : ~IsDegenerate(ref))
        paths == {ReferencedPath(kept[i]) : i \in 1..Len(kept)}
        Entry(ref) ==
            [reference_range |-> NumStr(ref.range_start) \o "-" \o NumStr(ref.range_end),
             reference_material |->
                 IF HasCapture(queries, ReferencedPath(ref))
                 THEN ReferenceMaterial(FileLines(queries, ReferencedPath(ref)), ref)
                 ELSE ""]
    IN  [path \in paths |->
            LET mine == SelectSeq(kept, LAMBDA ref : ReferencedPath(ref) = path)
            IN  [i \in 1..Len(mine) |-> Entry(mine[i])]]

RECURSIVE Unique(_)
\* The distinct elements of a list in the order they are first seen: what
\* `if (!list.includes(x)) list.push(x)` collects.
Unique(list) ==
    IF list = <<>> THEN <<>>
    ELSE LET front == Unique(SubSeq(list, 1, Len(list) - 1))
             last  == list[Len(list)]
         IN  IF \E i \in 1..Len(front) : front[i] = last THEN front
             ELSE Append(front, last)

\* Object.keys(output.referenced_files): a key is created by the first
\* kept reference to its path.
ReferencedFileNames(references) ==
    LET kept == SelectSeq(references, LAMBDA ref : ~IsDegenerate(ref))
    IN  Unique([i \in 1..Len(kept) |-> ReferencedPath(kept[i])])

transformResponse(in) ==
    [query_id |-> in.queryId,
     conversation |->
         FilterPreamble([i \in 1..Len(in.rawResponse) |->
                            ConversationQuery(in.rawResponse[i])]),
     repo_context_ids |-> in.rawResponse[1].repo_context_ids,
     referenced_files |-> ReferencedFiles(in.references, in.rawResponse),
     referenced_files_keys |-> ReferencedFileNames(in.references),
     full_context |-> FullContext(in.rawResponse)]

\* The references extractDataFromAllQueries collects from the fragments.
ExtractedReference(item) ==
    IF item.type = "reference"
    THEN [file_path |-> item.data.file_path,
          range_start |-> OrZero(item.data.range_start),
          range_end |-> OrZero(item.data.range_end)]
    ELSE [file_path |-> CapturePath(item), range_start |-> 0, range_end |-> 0]

extractReferences(queries) ==
    LET items == SelectSeq(AllItems(queries),
                           LAMBDA item : item.type \in {"reference", "file_contents"})
    IN  [i \in 1..Len(items) |-> ExtractedReference(items[i])]

\* The InputResponse a tool handler builds from a successful Result.
InputResponseOf(id, queries) ==
    [queryId |-> id,
     references |-> extractReferences(queries),
     rawResponse |-> queries]

\* ------------------------------------------------------------------------
\* transformResponse applied to status payloads
\* ------------------------------------------------------------------------

\* A captured file of twenty lines.
Capture == Join([i \in 1..20 |-> "line " \o NumStr(i)], "\n")

CitedFile == "a/b/x.py"

\* The fragments a query's response is made of here.
Fragments ==
    {Chunk("Looking at "), Chunk(""), Stats,
     FileCapture("a/b", "x.py", Capture),
     Reference(CitedFile, NoNumber, NoNumber),
     Reference("Repo a/b: x.py:0-0", 0, 0),
     Reference("Repo a/b: x.py", 10, 12)}
    \cup {Reference(CitedFile, r[1], r[2]) :
            r \in {<<0, 0>>, <<10, 12>>, <<1, 1>>, <<19, 20>>}}

FragmentSequences == UNION {[1..n -> Fragments] : n \in 0..MaxSequence}

\* An earlier turn of the conversation, answered with the engine's progress
\* lines in front.
EarlierTurn ==
    [user_query |-> "What is it?", repo_context_ids |-> <<"ctx-1">>,
     response |-> <<Chunk("Searching codebase...\n\nIt is a library."),
                    Reference("a/b/README.md", 0, 0)>>]

Turn(response) ==
    [user_query |-> "How does it work?", repo_context_ids |-> <<"ctx-1">>,
     response |-> response]

\* The payloads of a completed poll: one query, or a conversation of two.
Payloads ==
    {<<Turn(r)>> : r \in FragmentSequences}
    \cup {<<EarlierTurn, Turn(r)>> : r \in FragmentSequences}

AssembledId == "how-does-it-work_03d17174-ecbc-4604-82c0-debf4ef765b7"

\* A handler builds the InputResponse from the Result of the engine.
ReceivePayload ==
    /\ input = NoInput
    /\ \E queries \in Payloads : input' = InputResponseOf(AssembledId, queries)
    /\ UNCHANGED <<engineVars, hostVars, output>>

Transform ==
    /\ input # NoInput
    /\ output = NoOutput
    /\ output' = transformResponse(input)
    /\ UNCHANGED <<engineVars, hostVars, input>>

AssemblerInit == EngineIdle /\ HostIdle /\ AssemblerIdle

AssemblerNext == ReceivePayload \/ Transform

AssemblerSpec == AssemblerInit /\ [][AssemblerNext]_vars

\* ------------------------------------------------------------------------
\* Parameter validation
\* ------------------------------------------------------------------------

Letters ==
    {"a", "b", "c", "d", "e", "f", "g", "h", "i", "j", "k", "l", "m", "n", "o",
     "p", "q", "r", "s", "t", "u", "v", "w", "x", "y", "z",
     "A", "B", "C", "D", "E", "F", "G", "H", "I", "J", "K", "L", "M", "N", "O",
     "P", "Q", "R", "S", "T", "U", "V", "W", "X", "Y", "Z"}

AlphaNumerics == Letters \cup {DigitChars[i] : i \in 1..10}

\* A parameter that is there and not empty: what `if (x)` tests.
Truthy(x) == x # Undefined /\ x # ""

AllIn(s, chars) == \A i \in 1..Len(s) : SubSeq(s, i, i) \in chars

RECURSIVE LastNonSpace(_, _)
LastNonSpace(s, n) ==
    IF n >= 1 /\ SubSeq(s, n, n) = " " THEN LastNonSpace(s, n - 1) ELSE n

\* s.trim()
StrTrim(s) ==
    LET first == SkipWhile(s, 1, {" "})
        last  == LastNonSpace(s, Len(s))
    IN  IF first > last THEN "" ELSE SubSeq(s, first, last)

\* /^[a-zA-Z0-9]([a-zA-Z0-9-]*[a-zA-Z0-9])?$/
ValidName(s) ==
    /\ s # ""
    /\ AllIn(s, AlphaNumerics \cup {"-"})
    /\ SubSeq(s, 1, 1) \in AlphaNumerics
    /\ SubSeq(s, Len(s), Len(s)) \in AlphaNumerics

\* Each validator is given as the message of the error it throws, "" when
\* it throws none.
validateRepo(repo) ==
    IF ~Truthy(repo) THEN "Repository is required and must be a string"
    ELSE IF StrTrim(repo) = "" THEN "Repository cannot be empty"
    ELSE LET parts == Split(StrTrim(repo), "/")
         IN  IF Len(parts) # 2
             THEN "Invalid repository format. Expected \"owner/repo\", got \""
                  \o repo \o "\""
             ELSE IF parts[1] = "" \/ parts[2] = ""
             THEN "Invalid repository format. Both owner and repo name are required, got \""
                  \o repo \o "\""
             ELSE IF ~ValidName(parts[1])
             THEN "Invalid repository owner \"" \o parts[1] \o "\". Must contain only alphanumeric characters and hyphens, and cannot start or end with a hyphen."
             ELSE IF ~ValidName(parts[2])
             THEN "Invalid repository name \"" \o parts[2] \o "\". Must contain only alphanumeric characters and hyphens, and cannot start or end with a hyphen."
             ELSE ""

validateQuestion(question) ==
    IF ~Truthy(question) THEN "Question is required and must be a string"
    ELSE IF StrTrim(question) = "" THEN "Question cannot be empty"
    ELSE IF Len(StrTrim(question)) > 10000
    THEN "Question is too long (" \o NumStr(Len(StrTrim(question)))
         \o " characters). Maximum length is 10,000 characters."
    ELSE ""

\* /^[a-zA-Z0-9_-]+$/ on the trimmed identifier
validateQueryId(id) ==
    IF ~Truthy(id) THEN "Query ID is required and must be a string"
    ELSE IF StrTrim(id) = "" THEN "Query ID cannot be empty"
    ELSE IF ~AllIn(StrTrim(id), AlphaNumerics \cup {"_", "-"})
    THEN "Invalid query ID format \"" \o id \o "\". Must contain only alphanumeric characters, hyphens, and underscores."
    ELSE ""

\* The values the model passes are in lower case, so toLowerCase() leaves
\* them as they are.
validateSaveToFile(saveToFile) ==
    IF saveToFile \notin {"save-only", "save-and-show"}
    THEN "saveToFile must be either \"save-only\" or \"save-and-show\", got \""
         \o saveToFile \o "\""
    ELSE ""

validateAction(action) ==
    IF action \notin {"structure", "extract"}
    THEN "Action must be either \"structure\" or \"extract\", got \""
         \o action \o "\""
    ELSE ""

\* The first message of a list of checks that is not "".
RECURSIVE FirstError(_)
FirstError(messages) ==
    IF messages = <<>> THEN ""
    ELSE IF Head(messages) # "" THEN Head(messages)
    ELSE FirstError(Tail(messages))

\* The index of the first element of a list that satisfies Bad, counted
\* from 0 as the loops of the validators count; -1 when there is none.
FirstIndex(list, Bad(_)) ==
    IF \E i \in 1..Len(list) : Bad(list[i])
    THEN (CHOOSE i \in 1..Len(list) :
             Bad(list[i]) /\ \A j \in 1..(i - 1) : ~Bad(list[j])) - 1
    ELSE -1

\* `${n}` of an integer.
IntStr(n) == IF n < 0 THEN "-" \o NumStr(0 - n) ELSE NumStr(n)

\* The list is a list of integers here, so the checks of the type of an
\* element pass.
validateReferencesNumbers(referencesNumbers) ==
    IF referencesNumbers = <<>> THEN "References numbers array cannot be empty"
    ELSE IF FirstIndex(referencesNumbers, LAMBDA refNum : refNum < 1) >= 0
    THEN "Reference number at index "
         \o NumStr(FirstIndex(referencesNumbers, LAMBDA refNum : refNum < 1))
         \o " must be positive, got "
         \o IntStr(referencesNumbers[FirstIndex(referencesNumbers,
                                                LAMBDA refNum : refNum < 1) + 1])
    ELSE ""

validateContextFiles(contextFiles) ==
    IF contextFiles = <<>> THEN "Context files array cannot be empty"
    ELSE IF FirstIndex(contextFiles, LAMBDA file : StrTrim(file) = "") >= 0
    THEN "Context file at index "
         \o NumStr(FirstIndex(contextFiles, LAMBDA file : StrTrim(file) = ""))
         \o " cannot be empty"
    ELSE ""

validateChapters(chapters) ==
    IF chapters = <<>> THEN "Chapters array cannot be empty"
    ELSE IF FirstIndex(chapters, LAMBDA chapter : StrTrim(chapter) = "") >= 0
    THEN "Chapter at index "
         \o NumStr(FirstIndex(chapters, LAMBDA chapter : StrTrim(chapter) = ""))
         \o " cannot be empty"
    ELSE ""

\* The checks of one entry of contextRanges.
validateContextRange(range) ==
    IF StrTrim(range.file) = "" THEN "File path in contextRanges cannot be empty"
    ELSE IF range.start < 1
    THEN "Start line for file \"" \o range.file \o "\" must be positive, got "
         \o IntStr(range.start)
    ELSE IF range.end < range.start
    THEN "End line (" \o IntStr(range.end) \o ") for file \"" \o range.file
         \o "\" must be greater than or equal to start line ("
         \o IntStr(range.start) \o ")"
    ELSE ""

validateContextRanges(contextRanges) ==
    IF contextRanges = <<>> THEN "Context ranges object cannot be empty"
    ELSE FirstError([i \in 1..Len(contextRanges) |->
                        validateContextRange(contextRanges[i])])

\* ------------------------------------------------------------------------
\* The file cache: CacheManager
\* ------------------------------------------------------------------------

CacheDir == "~/.deepwiki-mcp/cache"

\* What a cache file holds: text, or the JSON text of a document.
NoContent == [kind |-> "none", text |-> "", json |-> NoOutput]

TextContent(text) == [kind |-> "text", text |-> text, json |-> NoOutput]

\* JSON.stringify(data, null, 2)
JSONstringify(data) == [kind |-> "json", text |-> "", json |-> data]

\* JSON.parse(content): the document, or NoOutput (null) when the content
\* is not JSON.
JSONparse(content) == IF content.kind = "json" THEN content.json ELSE NoOutput

RECURSIVE ReplaceChars(_, _, _)
\* s.replace(/[chars]/g, by)
ReplaceChars(s, chars, by) ==
    IF s = "" THEN ""
    ELSE (IF SubSeq(s, 1, 1) \in chars THEN by ELSE SubSeq(s, 1, 1))
         \o ReplaceChars(StrFrom(s, 2), chars, by)

\* repo.replace('/', '-'): the first '/' only
getRepoFolder(repo) ==
    LET i == IndexFrom(repo, "/", 1)
    IN  IF i = 0 THEN repo ELSE StrUpTo(repo, i - 1) \o "-" \o StrFrom(repo, i + 1)

getCacheSubfolder(type) == IF type = "question" THEN "questions" ELSE "wiki"

\* createHash('md5').update(identifier).digest('hex'): one name per
\* identifier.
md5(identifier) == "md5(" \o identifier \o ")"

getCacheFileName(type, identifier) ==
    IF type = "question" /\ StrIncludes(identifier, "-") /\ Len(identifier) > 30
    THEN "query-"
         \o ReplaceChars(identifier, {"<", ">", ":", "\"", "/", "\\", "|", "?", "*"}, "_")
         \o ".json"
    ELSE IF type = "wiki" THEN "wiki_" \o md5(identifier) \o ".md"
    ELSE type \o "_" \o md5(identifier) \o ".json"

\* name.replace(/\.(json|md)$/, '')
WithoutExtension(name) ==
    IF Len(name) >= 5 /\ StrFrom(name, Len(name) - 4) = ".json"
    THEN StrUpTo(name, Len(name) - 5)
    ELSE IF Len(name) >= 3 /\ StrFrom(name, Len(name) - 2) = ".md"
    THEN StrUpTo(name, Len(name) - 3)
    ELSE name

\* The file of an entry in the folder of its repository.
FolderPath(type, identifier, repo) ==
    Join(<<CacheDir, getRepoFolder(repo), getCacheSubfolder(type),
           getCacheFileName(type, identifier)>>, "/")

\* The file of an entry in the flat layout.
FlatPath(type, identifier) ==
    CacheDir \o "/" \o WithoutExtension(getCacheFileName(type, identifier))

\* The file of an entry in the old hashed layout.
OldPath(type, identifier) == CacheDir \o "/" \o type \o "_" \o md5(identifier)

\* CacheManager.get: the content found, or NoContent (null).
CacheManagerGet(files, type, identifier, repo) ==
    IF Truthy(repo) /\ FolderPath(type, identifier, repo) \in DOMAIN files
    THEN files[FolderPath(type, identifier, repo)]
    ELSE IF FlatPath(type, identifier) \in DOMAIN files
    THEN files[FlatPath(type, identifier)]
    ELSE IF OldPath(type, identifier) \in DOMAIN files
    THEN files[OldPath(type, identifier)]
    ELSE NoContent

\* writeFile(path, content)
WriteFile(files, path, content) ==
    [q \in DOMAIN files \cup {path} |-> IF q = path THEN content ELSE files[q]]

\* CacheManager.set when the write succeeds.
CacheManagerSet(files, type, identifier, content, repo) ==
    WriteFile(files,
              IF Truthy(repo) THEN FolderPath(type, identifier, repo)
              ELSE FlatPath(type, identifier),
              content)

getJSON(files, type, identifier, repo) ==
    JSONparse(CacheManagerGet(files, type, identifier, repo))

setJSON(files, type, identifier, data, repo) ==
    CacheManagerSet(files, type, identifier, JSONstringify(data), repo)

\* ------------------------------------------------------------------------
\* Save locations: validateSaveLocation
\* ------------------------------------------------------------------------

\* homedir() and process.cwd() of the server.
HomeDir == "/home/user"

WorkingDir == "/srv/deepwiki-mcp"

\* s.startsWith(prefix)
HasPrefix(s, prefix) ==
    Len(s) >= Len(prefix) /\ (prefix = "" \/ SubSeq(s, 1, Len(prefix)) = prefix)

RECURSIVE NormalizeSegments(_, _)
\* The segments of a path with "" and "." dropped and ".." taking the
\* segment before it away.
NormalizeSegments(segments, kept) ==
    IF segments = <<>> THEN kept
    ELSE IF Head(segments) \in {"", "."}
    THEN NormalizeSegments(Tail(segments), kept)
    ELSE IF Head(segments) = ".."
    THEN NormalizeSegments(Tail(segments),
                           IF kept = <<>> THEN kept
                           ELSE SubSeq(kept, 1, Len(kept) - 1))
    ELSE NormalizeSegments(Tail(segments), Append(kept, Head(segments)))

\* path.resolve(p): the absolute, normalized path.
resolve(path) ==
    "/" \o Join(NormalizeSegments(
                    Split(IF HasPrefix(path, "/") THEN path
                          ELSE WorkingDir \o "/" \o path, "/"),
                    <<>>), "/")

\* process.env.default_directory is not set.
getDefaultDirectory == HomeDir \o "/.deepwiki-mcp/output"

\* process.env.allowed_directories is not set: the two defaults.
getAllowedDirectories ==
    <<resolve(HomeDir \o "/.deepwiki-mcp"), resolve(getDefaultDirectory)>>

\* allowedBases.some(base => resolvedPath.startsWith(base))
IsWithinAllowedBase(resolvedPath, allowedBases) ==
    \E i \in 1..Len(allowedBases) : HasPrefix(resolvedPath, allowedBases[i])

\* validateSaveLocation: the message of the error it throws ("" when it
\* throws none) and the path it returns.
validateSaveLocation(saveLocation) ==
    [message |->
        IF ~Truthy(saveLocation)
        THEN "Invalid save location: must be a non-empty string"
        ELSE IF ~IsWithinAllowedBase(resolve(saveLocation), getAllowedDirectories)
        THEN "Invalid save location: must be within one of the allowed directories: "
             \o Join(getAllowedDirectories, ", ") \o ". Got: " \o saveLocation
        ELSE IF StrIncludes(saveLocation, "..")
        THEN "Invalid save location: path traversal patterns not allowed"
        ELSE "",
     resolvedPath |-> resolve(saveLocation)]

\* ------------------------------------------------------------------------
\* The markdown renderer: MarkdownGenerator
\* ------------------------------------------------------------------------

\* parts.join('')
Concat(parts) == Join(parts, "")

RECURSIVE LastNotIn(_, _, _)
LastNotIn(s, n, chars) ==
    IF n >= 1 /\ SubSeq(s, n, n) \in chars THEN LastNotIn(s, n - 1, chars) ELSE n

\* markdown.trim()
TrimWhitespace(s) ==
    LET first == SkipWhile(s, 1, {" ", "\n", "\t"})
        last  == LastNotIn(s, Len(s), {" ", "\n", "\t"})
    IN  IF first > last THEN "" ELSE SubSeq(s, first, last)

\* s.endsWith('\n')
EndsWithNewline(s) == Len(s) >= 1 /\ SubSeq(s, Len(s), Len(s)) = "\n"

RECURSIVE Repeat(_, _)
\* s.repeat(n)
Repeat(s, n) == IF n <= 0 THEN "" ELSE s \o Repeat(s, n - 1)

formatQueryId(data) == "# Query ID\n\n" \o data.query_id \o "\n"

\* `if (segment.reference)`
HasReference(segment) == Truthy(segment.reference)

\* All answer segments of the conversation, turn after turn.
RECURSIVE AllSegments(_)
AllSegments(conversation) ==
    IF conversation = <<>> THEN <<>>
    ELSE Head(conversation).answer_segments \o AllSegments(Tail(conversation))

\* A numbering that gives every reference the number 1.
ReferenceMapAllFirst(segments) ==
    [numbers |-> [r \in {segments[i].reference :
                           i \in {j \in 1..Len(segments) : HasReference(segments[j])}}
                    |-> 1],
     referenceCounter |-> 2]

RECURSIVE ReferenceMap(_)
\* formatAnswer's referenceMap and referenceCounter after the segments
\* given: a reference gets the counter's value the first time it is seen.
ReferenceMap(segments) ==
    IF segments = <<>> THEN [numbers |-> <<>>, referenceCounter |-> 1]
    ELSE LET before  == ReferenceMap(SubSeq(segments, 1, Len(segments) - 1))
             segment == segments[Len(segments)]
         IN  IF HasReference(segment)
                /\ segment.reference \notin DOMAIN before.numbers
             THEN [numbers |->
                       [r \in DOMAIN before.numbers \cup {segment.reference} |->
                           IF r = segment.reference THEN before.referenceCounter
                           ELSE before.numbers[r]],
                   referenceCounter |-> before.referenceCounter + 1]
             ELSE before

\* The text of a segment with its marker.
SegmentText(segment, numbers) ==
    segment.text
    \o (IF HasReference(segment)
        THEN " [" \o NumStr(numbers[segment.reference]) \o "]" ELSE "")

\* One turn of the answer: the follow-up header for every turn but the
\* first, then its segments.
AnswerTurn(query, i, numbers) ==
    (IF i > 1 THEN "\n---\n\n**Follow-up:** " \o query.user_query \o "\n\n" ELSE "")
    \o Concat([k \in 1..Len(query.answer_segments) |->
                  SegmentText(query.answer_segments[k], numbers)])

AnswerTurns(conversation, numbers) ==
    Concat([i \in 1..Len(conversation) |-> AnswerTurn(conversation[i], i, numbers)])

formatAnswer(data) ==
    "# Answer\n\n"
    \o AnswerTurns(data.conversation,
                   ReferenceMap(AllSegments(data.conversation)).numbers)
    \o "\n"

\* uniqueReferences: the references of the segments, each once, in the
\* order they are first seen.
UniqueReferences(data) ==
    LET cited == SelectSeq(AllSegments(data.conversation), HasReference)
    IN  Unique([i \in 1..Len(cited) |-> cited[i].reference])

ReferenceLines(uniqueReferences) ==
    Concat([i \in 1..Len(uniqueReferences) |->
               "[" \o NumStr(i) \o "]: " \o uniqueReferences[i] \o " \n"])

formatReferences(data) == "# References\n\n" \o ReferenceLines(UniqueReferences(data))

formatRepoContextIds(data) ==
    "# Repo Context IDs\n\n"
    \o Concat([i \in 1..Len(data.repo_context_ids) |->
                  "- " \o data.repo_context_ids[i] \o "\n"])

\* The backtick. A string of this notation cannot hold the character
\* itself; the tilde stands for it in the texts of the model.
Backtick == "~"

RECURSIVE LongestRun(_, _, _, _)
\* The longest of: best, the run of backticks that ends just before
\* position i (of length run) with what continues it, and the runs after.
LongestRun(s, i, run, best) ==
    IF i > Len(s) THEN Max(run, best)
    ELSE IF SubSeq(s, i, i) = Backtick THEN LongestRun(s, i + 1, run + 1, best)
    ELSE LongestRun(s, i + 1, 0, Max(run, best))

\* A fence of three backticks whatever the content.
getCodeFenceFixed(content) ==
    [open |-> Repeat(Backtick, 3), close |-> Repeat(Backtick, 3)]

getCodeFence(content) ==
    [open  |-> Repeat(Backtick, Max(3, LongestRun(content, 1, 0, 0) + 1)),
     close |-> Repeat(Backtick, Max(3, LongestRun(content, 1, 0, 0) + 1))]

\* The fenced block of a snippet or of a file's content.
FencedBlock(content, fence) ==
    fence.open \o "\n" \o content
    \o (IF EndsWithNewline(content) THEN "" ELSE "\n")
    \o fence.close \o "\n\n"

\* A selection that takes a number past the end of the list for its last
\* position.
IncludedReferencesClamped(uniqueReferences, includeAll, selectedNumbers) ==
    IF includeAll THEN {uniqueReferences[i] : i \in 1..Len(uniqueReferences)}
    ELSE IF selectedNumbers.given
    THEN {uniqueReferences[Min(selectedNumbers.value[k], Len(uniqueReferences))] :
            k \in {j \in 1..Len(selectedNumbers.value) :
                     /\ selectedNumbers.value[j] - 1 >= 0
                     /\ Len(uniqueReferences) > 0}}
    ELSE {}

\* includedReferences: all of them, or those at the selected numbers that
\* are positions of the list.
IncludedReferences(uniqueReferences, includeAll, selectedNumbers) ==
    IF includeAll THEN {uniqueReferences[i] : i \in 1..Len(uniqueReferences)}
    ELSE IF selectedNumbers.given
    THEN {uniqueReferences[selectedNumbers.value[k]] :
            k \in {j \in 1..Len(selectedNumbers.value) :
                     /\ selectedNumbers.value[j] - 1 >= 0
                     /\ selectedNumbers.value[j] - 1 < Len(uniqueReferences)}}
    ELSE {}

\* "org/repo: path/to/file.ext:line-range" taken apart at its first and
\* its last colon.
ParseReference(ref) ==
    LET firstColonIndex == IndexFrom(ref, ":", 1)
        rest            == StrTrim(StrFrom(ref, firstColonIndex + 1))
        lastColonIndex  == LastIndexBelow(rest, ":", Len(rest))
    IN  IF firstColonIndex = 0 \/ lastColonIndex = 0
        THEN [parsed |-> FALSE, fileName |-> "", lineRange |-> ""]
        ELSE [parsed |-> TRUE,
              fileName |-> StrTrim(StrUpTo(ref, firstColonIndex - 1)) \o "/"
                           \o StrTrim(StrUpTo(rest, lastColonIndex - 1)),
              lineRange |-> StrTrim(StrFrom(rest, lastColonIndex + 1))]

\* fileRangesMap.get(fileName): empty when the map has no such key.
IncludedRanges(included, fileName) ==
    {ParseReference(ref).lineRange :
        ref \in {r \in included : /\ ParseReference(r).parsed
                                  /\ ParseReference(r).fileName = fileName}}

\* The snippets of one file whose range is included.
ReferencedEntries(entries, includedRanges) ==
    Concat([i \in 1..Len(entries) |->
               IF entries[i].reference_range \notin includedRanges THEN ""
               ELSE "**[" \o entries[i].reference_range \o "]:**\n\n"
                    \o FencedBlock(entries[i].reference_material,
                                   getCodeFence(entries[i].reference_material))])

ReferencedFile(fileName, entries, includedRanges) ==
    IF includedRanges = {} THEN ""
    ELSE "## " \o fileName \o "\n\n" \o ReferencedEntries(entries, includedRanges)

ReferencedSections(data, included) ==
    Concat([i \in 1..Len(data.referenced_files_keys) |->
               ReferencedFile(data.referenced_files_keys[i],
                              data.referenced_files[data.referenced_files_keys[i]],
                              IncludedRanges(included, data.referenced_files_keys[i]))])

formatReferencedFiles(data, includeAll, selectedNumbers) ==
    "# Referenced Files\n\n"
    \o ReferencedSections(data,
                          IncludedReferences(UniqueReferences(data), includeAll,
                                             selectedNumbers))

\* fileRanges.get(fileName), when fileRanges has it.
RangeOf(fileRanges, fileName) ==
    SelectSeq(fileRanges.value, LAMBDA range : range.file = fileName)

\* The first and the last line shown of a file of totalLines lines,
\* counted from 0.
ShownRange(ranges, totalLines) ==
    IF ranges # <<>>
    THEN [rangeStart |-> ranges[1].start,
          rangeEnd |-> Min(ranges[1].end, totalLines - 1)]
    ELSE [rangeStart |-> 0, rangeEnd |-> totalLines - 1]

\* lines.slice(rangeStart, rangeEnd + 1).join('\n')
SelectedLines(lines, shown) ==
    Join(SubSeq(lines, Min(Max(shown.rangeStart, 0), Len(lines)) + 1,
                Min(shown.rangeEnd + 1, Len(lines))), "\n")

RangeLabel(rangeStart, rangeEnd) ==
    "[" \o NumStr(rangeStart) \o "-" \o NumStr(rangeEnd) \o "]"

\* The heading and the fenced content of one file.
FullContextFile(fileName, content, shown) ==
    "## " \o fileName \o " " \o RangeLabel(shown.rangeStart, shown.rangeEnd) \o "\n\n"
    \o FencedBlock(content, getCodeFence(content))

\* A file is shown when it is asked for.
ShouldShowFile(fileName, includeAll, selectedFiles) ==
    \/ includeAll
    \/ /\ selectedFiles.given
       /\ \E i \in 1..Len(selectedFiles.value) : selectedFiles.value[i] = fileName

FullContextEntry(context, includeAll, selectedFiles, fileRanges) ==
    IF ~ShouldShowFile(context.file_name, includeAll, selectedFiles) THEN ""
    ELSE FullContextFile(
             context.file_name,
             SelectedLines(Split(context.text, "\n"),
                           ShownRange(RangeOf(fileRanges, context.file_name),
                                      Len(Split(context.text, "\n")))),
             ShownRange(RangeOf(fileRanges, context.file_name),
                        Len(Split(context.text, "\n"))))

formatFullContext(data, includeAll, selectedFiles, fileRanges) ==
    "# Full Context Files\n\n"
    \o Concat([i \in 1..Len(data.full_context) |->
                  FullContextEntry(data.full_context[i], includeAll,
                                   selectedFiles, fileRanges)])

formatFullContextNamesOnly(data) ==
    "# Full Context Files\n\n"
    \o Concat([i \in 1..Len(data.full_context) |->
                  "## " \o data.full_context[i].file_name \o " "
                  \o RangeLabel(0, Len(Split(data.full_context[i].text, "\n")) - 1)
                  \o "\n\n"])

\* The last section of the markdown: names only in the standard mode, the
\* files asked for otherwise, or nothing.
FullContextSection(data, options) ==
    IF options.includeAnswer /\ options.includeReferencesList
    THEN formatFullContextNamesOnly(data)
    ELSE IF options.contextAll \/ options.contextFiles.given
    THEN formatFullContext(data, options.contextAll, options.contextFiles,
                           options.contextRanges)
    ELSE ""

\* generator.generateMarkdown(options) of new MarkdownGenerator(data)
generateMarkdown(data, options) ==
    TrimWhitespace(
        formatQueryId(data) \o "\n"
        \o (IF options.includeAnswer THEN formatAnswer(data) \o "\n" ELSE "")
        \o formatRepoContextIds(data) \o "\n"
        \o (IF options.includeReferencesList
            THEN formatReferences(data) \o "\n" ELSE "")
        \o (IF options.referencesAll \/ options.referencesNumbers.given
            THEN formatReferencedFiles(data, options.referencesAll,
                                       options.referencesNumbers) \o "\n"
            ELSE "")
        \o FullContextSection(data, options))

\* ------------------------------------------------------------------------
\* The wiki parser: parseChapterString and WikiParser
\* ------------------------------------------------------------------------

\* What the patterns of the parser take for white space.
Blanks == {" ", "\n", "\t"}

\* s.indexOf(needle, from), counting from 1; 0 when there is none.
IndexOf(s, needle, from) ==
    LET at == {i \in from..(Len(s) - Len(needle) + 1) :
                  SubSeq(s, i, i + Len(needle) - 1) = needle}
    IN  IF at = {} THEN 0 ELSE CHOOSE i \in at : \A j \in at : i <= j

\* text.split('\n')
SplitLines(text) ==
    LET breaks   == {i \in 1..Len(text) : SubSeq(text, i, i) = "\n"}
        Break(k) == IF k = 0 THEN 0
                    ELSE IF k > Cardinality(breaks) THEN Len(text) + 1
                    ELSE CHOOSE b \in breaks :
                             Cardinality({c \in breaks : c < b}) = k - 1
    IN  [k \in 1..(Cardinality(breaks) + 1) |->
            IF Break(k - 1) + 1 > Break(k) - 1 THEN ""
            ELSE SubSeq(text, Break(k - 1) + 1, Break(k) - 1)]

\* The length of the run of '#' that starts at position i.
HashRun(s, i) == SkipWhile(s, i, {"#"}) - i

\* /(\s|(?<=\d))(#{2,4})/ matches at position i: a blank with two hashes
\* after it, or two hashes with a digit before them.
FirstHeaderMatchAt(s, i) ==
    \/ SubSeq(s, i, i) \in Blanks /\ HashRun(s, i + 1) >= 2
    \/ i > 1 /\ IsDigit(SubSeq(s, i - 1, i - 1)) /\ HashRun(s, i) >= 2

RECURSIVE HeaderTokens(_, _)
\* The matches of /(#{2,4}\s*[^#\s][^#\n]*)/g in s from position from on,
\* each trimmed: at most four hashes, blanks, then the text up to the next
\* '#' or line break.
HeaderTokens(s, from) ==
    IF from > Len(s) THEN <<>>
    ELSE LET run    == HashRun(s, from)
             textAt == SkipWhile(s, from + run, Blanks)
             stop   == SkipUntil(s, textAt, {"#", "\n"})
         IN  IF run < 2 THEN HeaderTokens(s, from + 1)
             ELSE IF stop = textAt THEN HeaderTokens(s, from + run)
             ELSE <<TrimWhitespace(SubSeq(s, from + Max(0, run - 4), stop - 1))>>
                  \o HeaderTokens(s, stop)

\* parseChapterString: the title before the first header and the headers
\* after it.
parseChapterString(chapterString) ==
    LET found == {i \in 1..Len(chapterString) :
                     FirstHeaderMatchAt(chapterString, i)}
    IN  IF found = {}
        THEN [title |-> TrimWhitespace(chapterString), headers |-> <<>>]
        ELSE LET index == CHOOSE i \in found : \A j \in found : i <= j
             IN  [title   |-> TrimWhitespace(StrUpTo(chapterString, index - 1)),
                  headers |-> HeaderTokens(
                                  TrimWhitespace(StrFrom(chapterString, index)), 1)]

RECURSIVE ChapterTitles(_, _)
\* The matches of /,# ([^\n]+)/g from position from on: the chapter titles.
ChapterTitles(content, from) ==
    LET at   == IndexOf(content, ",# ", from)
        stop == SkipUntil(content, at + 3, {"\n"})
    IN  IF at = 0 THEN <<>>
        ELSE IF stop = at + 3 THEN ChapterTitles(content, at + 1)
        ELSE <<SubSeq(content, at + 3, stop - 1)>> \o ChapterTitles(content, stop)

\* getChapterStructure of a page without a "wiki" JSON structure: the
\* chapters are found by their markers and numbered from 1.
getChapterStructure(content) ==
    LET titles == ChapterTitles(content, 1)
    IN  [i \in 1..Len(titles) |-> [id |-> NumStr(i), title |-> titles[i]]]

\* A chapter is asked for by title, id, "id: title" or "Chapter id".
MatchesChapter(ch, requestedChapter) ==
    \/ ch.title = requestedChapter
    \/ ch.id = requestedChapter
    \/ ch.id \o ": " \o ch.title = requestedChapter
    \/ "Chapter " \o ch.id = requestedChapter

\* The text of a chapter: from its marker to the next one. The pages here
\* hold none of what parse cleans away (a details block, the list of
\* excluded chapters, stream markers, the trailing JSON).
ChapterContent(content, title) ==
    LET markerIndex      == IndexOf(content, ",# " \o title, 1)
        chapterStart     == markerIndex + Len(title) + 3
        nextChapterIndex == IndexOf(content, ",# ", chapterStart)
    IN  IF nextChapterIndex # 0
        THEN SubSeq(content, chapterStart, nextChapterIndex - 1)
        ELSE StrFrom(content, chapterStart)

\* WikiParser.parse: the chapters asked for (all of them when none is
\* named), in the order of the page.
parse(content, chapters) ==
    LET Asked(ch) == \/ ~chapters.given
                     \/ \E i \in 1..Len(chapters.value) :
                            MatchesChapter(ch, chapters.value[i])
        kept == SelectSeq(getChapterStructure(content), Asked)
    IN  [i \in 1..Len(kept) |->
            [id |-> kept[i].id, title |-> kept[i].title,
             content |-> ChapterContent(content, kept[i].title)]]

\* getStructureWithDepth at the default depth of 1.
getStructureWithDepth(content) ==
    LET chapters == parse(content, Absent)
    IN  Join([i \in 1..Len(chapters) |->
                 chapters[i].id \o ": " \o chapters[i].title], "\n\n")

\* /^(#{2,4}\s+[^\n]+)$/ on one line: two to four hashes, a blank, text.
IsHeaderLine(line) ==
    /\ HashRun(line, 1) \in 2..4
    /\ Len(line) >= HashRun(line, 1) + 2
    /\ SubSeq(line, HashRun(line, 1) + 1, HashRun(line, 1) + 1) \in Blanks

\* headerLine.replace(/^(#{2,4})\s+/, '$1') of the trimmed line.
NormalizedHeader(line) ==
    LET headerLine == TrimWhitespace(line)
        run        == HashRun(headerLine, 1)
    IN  StrUpTo(headerLine, run)
        \o StrFrom(headerLine, SkipWhile(headerLine, run + 1, Blanks))

\* The section of the header on line i: up to the next header with as
\* many hashes as requested or fewer, or to the end of the chapter.
Section(lines, i, requestedLevel) ==
    LET later == {j \in (i + 1)..Len(lines) :
                     /\ IsHeaderLine(lines[j])
                     /\ HashRun(TrimWhitespace(lines[j]), 1) <= requestedLevel}
        stop  == IF later = {} THEN Len(lines) + 1
                 ELSE CHOOSE j \in later : \A k \in later : j <= k
    IN  TrimWhitespace(Join(SubSeq(lines, i, stop - 1), "\n"))

\* What one requested header adds to the output: the section of the first
\* header of the chapter that is the requested one, or nothing.
RequestedSection(lines, requestedHeader) ==
    LET hits == {i \in 1..Len(lines) :
                    /\ IsHeaderLine(lines[i])
                    /\ NormalizedHeader(lines[i]) = requestedHeader}
    IN  IF hits = {} THEN ""
        ELSE Section(lines, CHOOSE i \in hits : \A k \in hits : i <= k,
                     HashRun(requestedHeader, 1)) \o "\n\n"

\* A request that stands for a header alone.
IsStandalone(requestedChapter) == HasPrefix(requestedChapter, "##")

\* new RegExp(`^${headerName}\\s*$`, 'm').test(content)
HasHeaderLine(content, headerName) ==
    LET lines == SplitLines(content)
    IN  \E i \in 1..Len(lines) :
            /\ HasPrefix(lines[i], headerName)
            /\ AllIn(StrFrom(lines[i], Len(headerName) + 1), Blanks)

\* The titles of the chapters that hold the header.
MatchingChapters(content, headerName) ==
    LET all  == parse(content, Absent)
        Hit(ch) == HasHeaderLine(ch.content, headerName)
        hits == SelectSeq(all, Hit)
    IN  [i \in 1..Len(hits) |-> hits[i].title]

\* The error the mapping of one requested chapter ends in, if any.
RequestedChapterError(content, requestedChapter) ==
    LET matchingChapters == MatchingChapters(content, requestedChapter)
    IN  IF ~IsStandalone(requestedChapter) THEN ""
        ELSE IF matchingChapters = <<>>
        THEN "Header \"" \o requestedChapter \o "\" not found in any chapter"
        ELSE IF Len(matchingChapters) > 1
        THEN "Conflicting subchapter name: \"" \o requestedChapter
             \o "\" found in chapters: " \o Join(matchingChapters, ", ")
             \o ". Format request like: \"Chapter Title" \o requestedChapter \o "\""
        ELSE ""

\* requestedChapterMap: the title of the chapter a request stands for, ""
\* when it stands for none.
RequestedTitle(content, requestedChapter) ==
    LET structure == getChapterStructure(content)
        Hit(ch)   == MatchesChapter(ch, requestedChapter)
        hits      == SelectSeq(structure, Hit)
    IN  IF IsStandalone(requestedChapter)
        THEN MatchingChapters(content, requestedChapter)[1]
        ELSE IF hits = <<>> THEN "" ELSE hits[1].title

\* chapterHeaderMap[key]: the headers last stored under the key, <<>> when
\* there are none.
HeadersUnder(parsed, key) ==
    LET at == {i \in 1..Len(parsed) :
                  parsed[i].title = key /\ parsed[i].headers # <<>>}
    IN  IF at = {} THEN <<>>
        ELSE parsed[CHOOSE i \in at : \A k \in at : k <= i].headers

\* requestedHeaders of a chapter: those stored under its title, else those
\* stored under a request that stands for it; a standalone header that
\* stands for it takes their place.
RequestedHeaders(content, chapter, parsed) ==
    LET For(i)     == RequestedTitle(content, parsed[i].title) = chapter.title
        byRequest  == {i \in 1..Len(parsed) :
                          For(i) /\ HeadersUnder(parsed, parsed[i].title) # <<>>}
        standalone == {i \in 1..Len(parsed) :
                          For(i) /\ IsStandalone(parsed[i].title)}
    IN  IF standalone # {}
        THEN <<parsed[CHOOSE i \in standalone : \A k \in standalone : i <= k].title>>
        ELSE IF HeadersUnder(parsed, chapter.title) # <<>>
        THEN HeadersUnder(parsed, chapter.title)
        ELSE IF byRequest # {}
        THEN HeadersUnder(parsed,
                 parsed[CHOOSE i \in byRequest : \A k \in byRequest : i <= k].title)
        ELSE <<>>

\* The output of one chapter: its title, then the requested sections or
\* the whole text.
ChapterOutput(chapter, requestedHeaders) ==
    "# " \o chapter.title \o "\n\n"
    \o (IF requestedHeaders # <<>>
        THEN Concat([k \in 1..Len(requestedHeaders) |->
                        RequestedSection(SplitLines(chapter.content),
                                         requestedHeaders[k])])
        ELSE chapter.content)

\* extractContent with the chapters and headers parseChapterString made of
\* the chapter strings (parsed), or with none.
extractContent(content, parsed) ==
    LET titles   == IF parsed.given
                    THEN Given([i \in 1..Len(parsed.value) |-> parsed.value[i].title])
                    ELSE Absent
        chapters == parse(content, titles)
        list     == parsed.value
        failed   == FirstError([i \in 1..Len(list) |->
                                   RequestedChapterError(content, list[i].title)])
    IN  IF failed # "" THEN [thrown |-> TRUE, message |-> failed]
        ELSE [thrown  |-> FALSE,
              message |-> Join([i \in 1..Len(chapters) |->
                                   ChapterOutput(chapters[i],
                                       RequestedHeaders(content, chapters[i], list))],
                               "\n\n---\n\n")]

\* ------------------------------------------------------------------------
\* The tools: wikiQuestionTool and wikiParserTool
\* ------------------------------------------------------------------------

\* What a handler leaves behind when it throws, and when it returns its
\* document and the query id that goes with it.
Raise(message, done, files) ==
    [thrown |-> TRUE, message |-> message, effects |-> done, files |-> files,
     document |-> NoOutput, id |-> ""]

Done(transformedJson, id, done, files) ==
    [thrown |-> FALSE, message |-> "", effects |-> done, files |-> files,
     document |-> transformedJson, id |-> id]

\* The Result an engine operation resolves to, or the error its promise is
\* rejected with.
RunSuccess(id, queries) ==
    [kind |-> "success", queryId |-> id, rawResponse |-> queries, error |-> ""]

RunFailure(error) ==
    [kind |-> "failure", queryId |-> "", rawResponse |-> <<>>, error |-> error]

RunRejected(error) ==
    [kind |-> "rejected", queryId |-> "", rawResponse |-> <<>>, error |-> error]

DiskFull == "ENOSPC: no space left on device, write"

\* A handler that returns its document without caching it.
CacheResponseUnwritten(transformedJson, id, repo, disk, done, files) ==
    Done(transformedJson, id, done, files)

\* cacheManager.setJSON('question', id, transformedJson, repo) at the end
\* of a handler: set rethrows the error of a failed write.
CacheResponse(transformedJson, id, repo, disk, done, files) ==
    IF disk.cacheWrite
    THEN Done(transformedJson, id, done \o <<"cache.set">>,
              setJSON(files, "question", id, transformedJson, repo))
    ELSE Raise(DiskFull, done \o <<"cache.set">>, files)

\* result.queryId?.split('_')[0] || ''
SlugOf(id) == Split(id, "_")[1]

\* The end of handleGoDeeperRequest: the deeper response is cached under
\* the new query id, in the folder named by the part of that id before its
\* first '_'.
CacheDeeper(transformedJson, newQueryId, disk, done, files) ==
    IF Truthy(newQueryId)
    THEN CacheResponse(transformedJson, newQueryId, SlugOf(newQueryId),
                       disk, done, files)
    ELSE Done(transformedJson, newQueryId, done, files)

handleGoDeeperRequest(paramQueryId, run, disk, files) ==
    IF run.kind = "rejected" THEN Raise(run.error, <<"engine.goDeeper">>, files)
    ELSE IF run.kind = "failure"
    THEN Raise("Failed to execute Go Deeper: " \o run.error,
               <<"engine.goDeeper">>, files)
    ELSE CacheDeeper(
             transformResponse(InputResponseOf(run.queryId, run.rawResponse)),
             run.queryId, disk, <<"engine.goDeeper">>, files)

handleFollowUpRequest(paramQueryId, followUpQuestion, repo, run, disk, files) ==
    IF run.kind = "rejected"
    THEN Raise(run.error, <<"engine.sendFollowUp">>, files)
    ELSE IF run.kind = "failure"
    THEN Raise("Failed to send follow-up: " \o run.error,
               <<"engine.sendFollowUp">>, files)
    ELSE CacheResponse(
             transformResponse(InputResponseOf(run.queryId, run.rawResponse)),
             paramQueryId, repo, disk, <<"engine.sendFollowUp">>, files)

\* `question_${repo}_${question}_${useDeepResearch ? 'deep' : 'regular'}`
TempCacheKey(repo, question, deep) ==
    "question_" \o repo \o "_" \o question \o "_"
    \o (IF deep THEN "deep" ELSE "regular")

\* The response is cached under its query id, or under the temporary key
\* when the engine returned none.
handleNewQuestion(repo, question, deep, run, disk, done, files) ==
    IF run.kind = "rejected"
    THEN Raise(run.error, done \o <<"engine.askQuestion">>, files)
    ELSE IF run.kind = "failure"
    THEN Raise("Failed to get answer: " \o run.error,
               done \o <<"engine.askQuestion">>, files)
    ELSE CacheResponse(
             transformResponse(InputResponseOf(run.queryId, run.rawResponse)),
             IF Truthy(run.queryId) THEN run.queryId
             ELSE TempCacheKey(repo, question, deep),
             repo, disk, done \o <<"engine.askQuestion">>, files)

\* The checks at the head of wikiQuestionTool.
QuestionParamsError(p) ==
    FirstError(<<validateRepo(p.repo),
                 IF Truthy(p.question) THEN validateQuestion(p.question) ELSE "",
                 IF Truthy(p.queryId) THEN validateQueryId(p.queryId) ELSE "",
                 IF Truthy(p.followUpQuestion)
                 THEN validateQuestion(p.followUpQuestion) ELSE "",
                 IF p.referencesNumbers.given
                 THEN validateReferencesNumbers(p.referencesNumbers.value)
                 ELSE "",
                 IF p.contextFiles.given
                 THEN validateContextFiles(p.contextFiles.value) ELSE "",
                 IF p.contextRanges.given
                 THEN validateContextRanges(p.contextRanges.value) ELSE "",
                 IF Truthy(p.saveToFile)
                 THEN validateSaveToFile(p.saveToFile) ELSE "">>)

\* "Route to appropriate handler based on request type"
RouteOf(p) ==
    IF p.goDeeper THEN "goDeeper"
    ELSE IF Truthy(p.followUpQuestion) THEN "followUp"
    ELSE IF Truthy(p.queryId) THEN "cached"
    ELSE "question"

\* A queryId-only route that goes on without a document.
CachedResponseSilent(transformedJson, paramQueryId, files) ==
    Done(transformedJson, paramQueryId, <<"cache.get">>, files)

\* The queryId-only route: the cached document, or the error thrown when
\* getJSON returned null.
CachedResponse(transformedJson, paramQueryId, files) ==
    IF transformedJson = NoOutput
    THEN Raise("No cached response found for query ID: " \o paramQueryId,
               <<"cache.get">>, files)
    ELSE Done(transformedJson, paramQueryId, <<"cache.get">>, files)

\* The new-question route after the lookup under the temporary key.
NewQuestion(transformedJson, tempCacheKey, p, run, disk, files) ==
    IF transformedJson = NoOutput
    THEN handleNewQuestion(p.repo, p.question, p.useDeepResearch,
                           run, disk, <<"cache.get">>, files)
    ELSE Done(transformedJson, tempCacheKey, <<"cache.get">>, files)

RouteRequest(p, run, disk, files) ==
    IF p.goDeeper
    THEN IF ~Truthy(p.queryId)
         THEN Raise("Query ID is required for Go Deeper functionality", <<>>, files)
         ELSE handleGoDeeperRequest(p.queryId, run, disk, files)
    ELSE IF Truthy(p.followUpQuestion)
    THEN IF ~Truthy(p.queryId)
         THEN Raise("Query ID is required for follow-up questions", <<>>, files)
         ELSE handleFollowUpRequest(p.queryId, p.followUpQuestion, p.repo,
                                    run, disk, files)
    ELSE IF Truthy(p.queryId)
    THEN CachedResponse(getJSON(files, "question", p.queryId, p.repo),
                        p.queryId, files)
    ELSE IF ~Truthy(p.question)
    THEN Raise("Question is required when queryId is not provided", <<>>, files)
    ELSE NewQuestion(
             getJSON(files, "question",
                     TempCacheKey(p.repo, p.question, p.useDeepResearch), p.repo),
             TempCacheKey(p.repo, p.question, p.useDeepResearch),
             p, run, disk, files)

\* Without includeFullConversation a document of more than one turn is
\* cut down to its last turn.
filterConversationForFollowUp(transformedJson, includeFullConversation) ==
    IF includeFullConversation THEN transformedJson
    ELSE IF Len(transformedJson.conversation) > 1
    THEN [transformedJson EXCEPT
             !.conversation = <<@[Len(transformedJson.conversation)]>>]
    ELSE transformedJson

\* A call that renders every document whole.
FilteredResponseWhole(p, transformedJson) == transformedJson

\* filteredResponse: what the generator is given.
FilteredResponse(p, transformedJson) ==
    IF Truthy(p.followUpQuestion)
    THEN filterConversationForFollowUp(transformedJson, p.includeFullConversation)
    ELSE transformedJson

\* The file saveResponseToFile writes when no location is given.
ResponseFile(id, repo, p) ==
    getDefaultDirectory \o "/" \o getRepoFolder(repo) \o "/questions/"
    \o (IF p.goDeeper THEN "go-deeper"
        ELSE IF Truthy(p.followUpQuestion) THEN "follow-up" ELSE "question")
    \o "_query-" \o id \o ".md"

\* `**Deep Research Mode Used**\n\n${markdown}` for a deep question.
WithDeepMarker(p, markdown) ==
    IF p.useDeepResearch /\ (Truthy(p.followUpQuestion) \/ Truthy(p.question))
    THEN "**Deep Research Mode Used**\n\n" \o markdown
    ELSE markdown

\* actualQueryId || transformedJson?.query_id || 'unknown'
SavedId(routed) ==
    IF Truthy(routed.id) THEN routed.id
    ELSE IF Truthy(routed.document.query_id) THEN routed.document.query_id
    ELSE "unknown"

\* The text returned once the file is written.
SavedText(p, savedId, markdown) ==
    "Query ID: " \o savedId \o "\nOutput saved to: "
    \o (IF Truthy(p.saveLocation)
        THEN validateSaveLocation(p.saveLocation).resolvedPath
        ELSE ResponseFile(savedId, p.repo, p))
    \o (IF p.saveToFile = "save-only" THEN "" ELSE "\n\n---\n\n" \o markdown)

\* saveResponseToFile and what is returned after it: a location that is
\* given is validated first, then the file is written.
SaveResponse(p, disk, routed, markdown) ==
    IF ~Truthy(p.saveToFile) THEN [routed EXCEPT !.message = markdown]
    ELSE IF Truthy(p.saveLocation)
            /\ validateSaveLocation(p.saveLocation).message # ""
    THEN [routed EXCEPT !.thrown = TRUE,
                        !.message = validateSaveLocation(p.saveLocation).message]
    ELSE IF ~disk.fileWrite
    THEN [routed EXCEPT !.thrown = TRUE, !.message = DiskFull,
                        !.effects = @ \o <<"file.write">>]
    ELSE [routed EXCEPT !.message = SavedText(p, SavedId(routed), markdown),
                        !.effects = @ \o <<"file.write">>]

\* The tail of wikiQuestionTool: the markdown of the routed document,
\* saved to a file when asked.
RenderAndSave(p, disk, routed) ==
    IF routed.thrown THEN routed
    ELSE SaveResponse(p, disk, routed,
                      WithDeepMarker(p, generateMarkdown(
                                            FilteredResponse(p, routed.document), p)))

\* A list of checks ends in the first error, or in what follows them.
OrElse(message, files, ended) ==
    IF message # "" THEN Raise(message, <<>>, files) ELSE ended

\* wikiQuestionTool: what it returns or throws, and what it has done.
wikiQuestionTool(p, run, disk, files) ==
    OrElse(QuestionParamsError(p), files,
           RenderAndSave(p, disk, RouteRequest(p, run, disk, files)))

\* A handler that checks nothing before it calls the tool.
QuestionRequestErrorNone(p) == ""

\* The checks of the wiki_question handler before it calls the tool.
QuestionRequestError(p) ==
    IF ~Truthy(p.question) /\ ~Truthy(p.queryId)
    THEN "Either 'question' or 'queryId' must be provided"
    ELSE IF p.goDeeper /\ ~Truthy(p.queryId)
    THEN "'queryId' is required when using 'goDeeper'"
    ELSE IF Truthy(p.followUpQuestion) /\ ~Truthy(p.queryId)
    THEN "'queryId' is required when using 'followUpQuestion'"
    ELSE IF Cardinality({a \in {"question", "goDeeper", "followUpQuestion"} :
                            \/ a = "question" /\ Truthy(p.question)
                            \/ a = "goDeeper" /\ p.goDeeper
                            \/ a = "followUpQuestion" /\ Truthy(p.followUpQuestion)})
            > 1
    THEN "Cannot use 'question', 'goDeeper', and 'followUpQuestion' together. Choose one action."
    ELSE ""

\* An error leaving the handler.
Uncaught(message) ==
    [content |-> message, isError |-> FALSE, thrown |-> TRUE]

\* The CallToolResult a handler returns from its catch block.
Caught(message) ==
    [content |-> "Error: " \o message, isError |-> TRUE, thrown |-> FALSE]

Returned(text) == [content |-> text, isError |-> FALSE, thrown |-> FALSE]

\* try { ... return { content } } catch (error) { return { content:
\* `Error: ${message}`, isError: true } }, around what a handler did.
Handled(ended) ==
    [reply |-> IF ended.thrown THEN Caught(ended.message)
               ELSE Returned(ended.message),
     effects |-> ended.effects, files |-> ended.files,
     document |-> ended.document, id |-> ended.id]

\* The wiki_question handler.
QuestionHandler(p, run, disk, files) ==
    Handled(OrElse(QuestionRequestError(p), files,
                   wikiQuestionTool(p, run, disk, files)))

\* The checks at the head of wikiParserTool.
ParserParamsError(p) ==
    FirstError(<<validateRepo(p.repo), validateAction(p.action),
                 IF p.chapters.given THEN validateChapters(p.chapters.value)
                 ELSE "",
                 IF Truthy(p.saveToFile)
                 THEN validateSaveToFile(p.saveToFile) ELSE "">>)

\* The wiki text of the repository: three chapters, the second with
\* sections on two levels, the third with a title that ends in a digit.
WikiPage ==
    "wiki\n,# Overview\nA renderer.\n"
    \o ",# Setup\nSteps.\n## Installation\nRun it.\n### Linux\nUse apt.\n"
    \o "## Configuration\nEdit it.\n"
    \o ",# Part 2\nMore.\n## Usage\nCall it.\n"

WikiUrl(repo) == "https://deepwiki.com/" \o repo

\* What the download of the wiki page comes to: the page, a response that
\* is OK with nothing in its body, a response that is not OK, no response.
FetchOutcomes == {"ok", "empty", "http", "network"}

\* response.text()
ResponseText(net) == IF net = "empty" THEN "" ELSE WikiPage

\* The wiki text of the repository: from the cache when get returns a text
\* that is not empty (`if (!wikiContent)`), or downloaded and cached.
WikiContent(p, net, disk, files) ==
    LET cacheKey == "wiki_" \o p.repo
        wikiContent == CacheManagerGet(files, "wiki", cacheKey, p.repo)
        done == <<"cache.get", "fetch">>
    IN  IF wikiContent # NoContent /\ wikiContent.text # ""
        THEN [Done(NoOutput, "", <<"cache.get">>, files) EXCEPT
                 !.message = wikiContent.text]
        ELSE IF net = "network"
        THEN Raise("Network error: Failed to connect to " \o WikiUrl(p.repo)
                   \o ". Check your internet connection.", done, files)
        ELSE IF net = "http"
        THEN Raise("Failed to download wiki content: HTTP 500: Internal Server Error",
                   done, files)
        ELSE IF ~disk.cacheWrite
        THEN Raise("Failed to download wiki content: " \o DiskFull,
                   done \o <<"cache.set">>, files)
        ELSE [Done(NoOutput, "", done \o <<"cache.set">>,
                   CacheManagerSet(files, "wiki", cacheKey,
                                   TextContent(ResponseText(net)), p.repo))
              EXCEPT !.message = ResponseText(net)]

\* The chapter strings of the call as parseChapterString reads them.
ParsedChapters(chapters) ==
    IF chapters.given
    THEN Given([i \in 1..Len(chapters.value) |->
                   parseChapterString(chapters.value[i])])
    ELSE Absent

\* The parse of the wiki text: the structure of the page, or the content
\* of the chapters asked for.
ParseWiki(p, loaded) ==
    IF loaded.thrown THEN loaded
    ELSE IF p.action = "structure"
    THEN [loaded EXCEPT !.message = getStructureWithDepth(loaded.message)]
    ELSE [loaded EXCEPT
             !.thrown  = extractContent(loaded.message,
                                        ParsedChapters(p.chapters)).thrown,
             !.message = extractContent(loaded.message,
                                        ParsedChapters(p.chapters)).message]

wikiParserTool(p, net, disk, files) ==
    OrElse(ParserParamsError(p), files,
           ParseWiki(p, WikiContent(p, net, disk, files)))

\* The file the wiki_parser handler writes when no location is given.
WikiFile(repo, action) ==
    getDefaultDirectory \o "/" \o getRepoFolder(repo) \o "/wiki/" \o action \o ".md"

\* The tail of the wiki_parser handler: the result saved to a file when
\* asked, at the location given when it passes validateSaveLocation.
SaveWiki(p, disk, ended) ==
    IF ended.thrown \/ ~Truthy(p.saveToFile) THEN ended
    ELSE IF Truthy(p.saveLocation)
            /\ validateSaveLocation(p.saveLocation).message # ""
    THEN [ended EXCEPT !.thrown = TRUE,
                       !.message = validateSaveLocation(p.saveLocation).message]
    ELSE IF ~disk.fileWrite
    THEN [ended EXCEPT !.thrown = TRUE, !.message = DiskFull,
                       !.effects = @ \o <<"file.write">>]
    ELSE [ended EXCEPT
             !.message = "Output saved to: "
                         \o (IF Truthy(p.saveLocation)
                             THEN validateSaveLocation(p.saveLocation).resolvedPath
                             ELSE WikiFile(p.repo, p.action))
                         \o (IF p.saveToFile = "save-only" THEN ""
                             ELSE "\n\n---\n\n" \o ended.message),
             !.effects = @ \o <<"file.write">>]

\* The wiki_parser handler.
ParserHandler(p, net, disk, files) ==
    Handled(SaveWiki(p, disk, wikiParserTool(p, net, disk, files)))

\* ------------------------------------------------------------------------
\* Tool calls arriving at the host
\* ------------------------------------------------------------------------

ToolRepos == {"facebook/react", "react"}

\* The repository the questions are about.
QuestionRepo == "facebook/react"

Questions == {Undefined, "How does it work?"}

FollowUps == {Undefined, "And on failure?"}

GivenQueryId == "what-does-it-do_7b0c1f2e-0d5a-4c8e-9a57-1c2d3e4f5a6b"

DeeperQueryId == "what-does-it-do_9e8d7c6b-5a4f-4e3d-8c2b-1a0f9e8d7c6b"

MalformedQueryId == "what does it do?"

QueryIds == {Undefined, GivenQueryId, AssembledId, DeeperQueryId, MalformedQueryId}

SaveModes == {Undefined, "save-only"}

\* The calls that differ in what they ask for and how.
RoutedParams ==
    {[NoParams EXCEPT !.tool = "wiki_question", !.repo = QuestionRepo,
                      !.question = q,
                      !.queryId = id, !.goDeeper = g, !.followUpQuestion = f,
                      !.saveToFile = m] :
        q \in Questions, id \in QueryIds, g \in BOOLEAN,
        f \in FollowUps, m \in SaveModes}

\* A follow-up that asks for the whole conversation.
WholeConversationParams ==
    {[p EXCEPT !.includeFullConversation = TRUE] :
        p \in {q \in RoutedParams : Truthy(q.followUpQuestion)}}

\* A new question, a retrieval and a follow-up, each well formed.
PlainCalls ==
    {[NoParams EXCEPT !.tool = "wiki_question", !.repo = QuestionRepo,
                      !.question = "How does it work?"],
     [NoParams EXCEPT !.tool = "wiki_question", !.repo = QuestionRepo,
                      !.queryId = GivenQueryId],
     [NoParams EXCEPT !.tool = "wiki_question", !.repo = QuestionRepo,
                      !.queryId = GivenQueryId,
                      !.followUpQuestion = "And on failure?"]}

\* The same calls with one option that does not pass its check: a
\* reference number below 1, an empty list of files, a range from line 0,
\* a save mode that does not exist, a save location outside the allowed
\* directories.
OptionParams ==
    UNION {{[p EXCEPT !.referencesNumbers = Given(<<0>>)],
            [p EXCEPT !.includeAnswer = FALSE, !.contextFiles = Given(<<>>)],
            [p EXCEPT !.includeAnswer = FALSE,
                      !.contextFiles = Given(<<"src/index.js">>),
                      !.contextRanges =
                          Given(<<[file |-> "src/index.js", start |-> 0, end |-> 3]>>)],
            [p EXCEPT !.saveToFile = "print"],
            [p EXCEPT !.saveToFile = "save-only", !.saveLocation = "/tmp/answer.md"],
            [p EXCEPT !.saveToFile = "save-only",
                      !.saveLocation = getDefaultDirectory \o "/answer.md"]} :
           p \in PlainCalls}

\* A retrieval that selects the snippet of one reference number.
NumberedRetrievals ==
    {[NoParams EXCEPT !.tool = "wiki_question", !.repo = QuestionRepo,
                      !.queryId = GivenQueryId,
                      !.referencesNumbers = Given(<<n>>)] : n \in {1, 2}}

QuestionParams ==
    RoutedParams \cup WholeConversationParams \cup OptionParams
    \cup NumberedRetrievals

\* The chapters a call can name: by title, by id, with sections after a
\* blank or right after the title, a header alone, and none at all.
ChapterRequests ==
    {<<"Setup">>, <<"Overview", "Part 2">>, <<"2">>,
     <<"Setup##Installation">>, <<"Setup ##Installation">>,
     <<"Setup ##Installation ##Configuration">>, <<"Setup ###Linux">>,
     <<"Part 2##Usage">>, <<"2 ##Configuration">>,
     <<"##Missing">>, <<"Part 2", "## Usage">>, <<>>}

ParserParams ==
    {[NoParams EXCEPT !.tool = "wiki_parser", !.repo = r, !.action = a,
                      !.saveToFile = m] :
        r \in ToolRepos, a \in {"structure", "extract", "remove"},
        m \in SaveModes}
    \cup {[NoParams EXCEPT !.tool = "wiki_parser", !.repo = QuestionRepo,
                           !.action = "extract", !.chapters = Given(c)] :
             c \in ChapterRequests}

\* The answer to the question of GivenQueryId, and the turn a follow-up
\* adds to it.
GivenTurn ==
    [user_query |-> "What does it do?", repo_context_ids |-> <<"ctx-1">>,
     response |-> <<Chunk("It renders views."),
                    Reference("src/index.js", 1, 2)>>]

FollowUpTurn ==
    [user_query |-> "And on failure?", repo_context_ids |-> <<"ctx-1">>,
     response |-> <<Chunk("It throws.")>>]

\* The first turn of a conversation as the engine returns it with the file
\* it cites captured.
CapturingTurn ==
    [user_query |-> "What does it do?", repo_context_ids |-> <<"ctx-1">>,
     response |-> <<FileCapture("facebook/react", "src/index.js",
                                "import { render } from './render'\nrender()\nexport {}"),
                    Chunk("It renders views."),
                    Reference("facebook/react/src/index.js", 1, 2)>>]

\* The turn of a follow-up that captures a file of its own and cites it.
CitingFollowUpTurn ==
    [user_query |-> "And on failure?", repo_context_ids |-> <<"ctx-1">>,
     response |-> <<FileCapture("facebook/react", "src/errors.js",
                                "try {\n  render()\n} catch (e) {\n  log(e)\n}"),
                    Chunk("It logs the error."),
                    Reference("facebook/react/src/errors.js", 3, 4)>>]

DeeperTurn ==
    [user_query |-> "What does it do?", repo_context_ids |-> <<"ctx-1">>,
     response |-> <<Chunk("It renders views and reconciles them."),
                    Reference("src/reconciler.js", 3, 9)>>]

EngineFailed == "Query did not complete within scheduled checks (regular mode)."

LaunchFailed == "Failed to launch the browser process"

\* A call the handler or the tool turns down on its parameters.
TurnedDown(p) == QuestionRequestError(p) # "" \/ QuestionParamsError(p) # ""

\* How far a call gets: turned down, to the cache only, or to the engine.
Reach(p) ==
    IF TurnedDown(p) THEN "none"
    ELSE IF RouteOf(p) = "cached" THEN "cache"
    ELSE "engine"

\* What the engine can come back with on each route; a call that does not
\* get to the engine has nothing to wait for.
EngineRuns(p, reach) ==
    IF reach # "engine" THEN {RunFailure("")}
    ELSE {RunFailure(EngineFailed), RunRejected(LaunchFailed)}
         \cup (IF RouteOf(p) = "goDeeper"
               THEN {RunSuccess(DeeperQueryId, <<DeeperTurn>>)}
               ELSE IF RouteOf(p) = "followUp"
               THEN {RunSuccess(p.queryId, <<GivenTurn, FollowUpTurn>>),
                     RunSuccess(p.queryId, <<CapturingTurn, CitingFollowUpTurn>>),
                     RunSuccess(p.queryId, <<GivenTurn>>)}
               ELSE {RunSuccess(AssembledId,
                                <<Turn(<<Chunk("It diffs trees."),
                                         Reference(CitedFile, 10, 12)>>)>>)})

\* What the disk does to the writes a call can get to.
DiskOutcomes(writesCache, writesFile) ==
    [cacheWrite : IF writesCache THEN BOOLEAN ELSE {TRUE},
     fileWrite  : IF writesFile THEN BOOLEAN ELSE {TRUE}]

\* What a wiki_question call meets: the engine's answer and the disk.
QuestionCircumstances(p, reach) ==
    EngineRuns(p, reach)
    \X DiskOutcomes(reach = "engine", reach # "none" /\ Truthy(p.saveToFile))

\* What a wiki_parser call meets: the download, the page and the disk.
ParserCircumstances(p, valid) ==
    (IF valid THEN FetchOutcomes ELSE {"ok"})
    \X DiskOutcomes(valid, valid /\ Truthy(p.saveToFile))

\* The cache directory outlives the server: empty, or holding the answer
\* to GivenQueryId from an earlier session.
InitialCaches ==
    {NoFiles,
     setJSON(NoFiles, "question", GivenQueryId,
             transformResponse(InputResponseOf(GivenQueryId, <<GivenTurn>>)),
             QuestionRepo)}

\* The call stored its document in the cache under the caller's
\* repository: a new question or a follow-up that got as far as its
\* document (it may still fail afterwards, saving its output).
StoredByCall(p, handled) ==
    /\ p.tool = "wiki_question"
    /\ RouteOf(p) \in {"question", "followUp"}
    /\ handled.document # NoOutput
    /\ \E i \in DOMAIN handled.effects : handled.effects[i] = "cache.set"

\* The ids this session handed out with a successful answer, each with its
\* repository and the document last stored under it.
IssuedAfter(given, p, handled) ==
    LET kept == {IF e.repo = p.repo /\ e.id = handled.id /\ StoredByCall(p, handled)
                 THEN [e EXCEPT !.document = handled.document] ELSE e :
                    e \in given}
    IN  IF handled.reply.isError \/ p.tool # "wiki_question"
           \/ RouteOf(p) = "cached"
        THEN kept
        ELSE {e \in kept : ~(e.repo = p.repo /\ e.id = handled.id)}
             \cup {[repo |-> p.repo, id |-> handled.id, route |-> RouteOf(p),
                    document |-> handled.document]}

\* The host takes the result of the handler; the cache is as the handler
\* left it.
Answer(p, handled) ==
    /\ params' = p
    /\ reply' = handled.reply
    /\ effects' = handled.effects
    /\ cache' = handled.files
    /\ document' = handled.document
    /\ issued' = IssuedAfter(issued, p, handled)

wiki_question ==
    /\ calls < MaxCalls
    /\ \E p \in QuestionParams :
         \E c \in QuestionCircumstances(p, Reach(p)) :
           Answer(p, QuestionHandler(p, c[1], c[2], cache))
    /\ calls' = calls + 1
    /\ UNCHANGED <<engineVars, assemblerVars>>

wiki_parser ==
    /\ calls < MaxCalls
    /\ \E p \in ParserParams :
         \E c \in ParserCircumstances(p, ParserParamsError(p) = "") :
           Answer(p, ParserHandler(p, c[1], c[2], cache))
    /\ calls' = calls + 1
    /\ UNCHANGED <<engineVars, assemblerVars>>

ToolInit ==
    /\ EngineIdle
    /\ AssemblerIdle
    /\ cache \in InitialCaches
    /\ params = NoParams
    /\ effects = <<>>
    /\ reply = NoReply
    /\ calls = 0
    /\ issued = {}
    /\ document = NoOutput

ToolNext == wiki_question \/ wiki_parser

ToolSpec == ToolInit /\ [][ToolNext]_vars

\* ------------------------------------------------------------------------
\* Retrievals of a cached document
\* ------------------------------------------------------------------------

\* Most pieces the latest turn of a cached conversation is made of.
MaxPieces == 3

\* Two captured files: one of four lines holding a run of three backticks,
\* one ending in a line break and holding a run of four.
FileX == "a/b/x.py"

FileY == "a/b/y.md"

ContentX == "one\n" \o Repeat(Backtick, 3) \o "\nthree\nfour"

ContentY == Repeat(Backtick, 4) \o " x\nend\n"

\* What a turn's response is put together from: a capture, a text with its
\* citation, a closing text.
Pieces ==
    {<<FileCapture("a/b", "x.py", ContentX)>>,
     <<FileCapture("a/b", "y.md", ContentY)>>,
     <<Chunk("See x. "), Reference(FileX, 1, 2)>>,
     <<Chunk("See y. "), Reference(FileY, 1, 1)>>,
     <<Chunk("See z. "), Reference("a/b/z.js", 2, 3)>>,
     <<Chunk("Done.")>>}

RECURSIVE Flatten(_)
Flatten(lists) ==
    IF lists = <<>> THEN <<>> ELSE Head(lists) \o Flatten(Tail(lists))

PieceSequences == UNION {[1..n -> Pieces] : n \in 0..MaxPieces}

\* An earlier turn that cites the first lines of x.py.
CitingTurn ==
    [user_query |-> "What is it?", repo_context_ids |-> <<"ctx-1">>,
     response |-> <<Chunk("Searching codebase...\n\nIt is a library. "),
                    Reference(FileX, 1, 2)>>]

\* The conversations an earlier session left in the cache under
\* GivenQueryId: one turn, or two.
StoredConversations ==
    {<<Turn(Flatten(s))>> : s \in PieceSequences}
    \cup {<<CitingTurn, Turn(Flatten(s))>> : s \in PieceSequences}

StoredCaches ==
    {setJSON(NoFiles, "question", GivenQueryId,
             transformResponse(InputResponseOf(GivenQueryId, queries)),
             QuestionRepo) : queries \in StoredConversations}

\* A call with a query id alone.
Retrieval == [NoParams EXCEPT !.tool = "wiki_question", !.repo = QuestionRepo,
                              !.queryId = GivenQueryId]

\* includeAnswer and includeReferencesList, their defaults included.
Views ==
    {[Retrieval EXCEPT !.includeAnswer = a, !.includeReferencesList = l] :
        a \in BOOLEAN, l \in BOOLEAN}

NumberSelections ==
    {Given(<<1>>), Given(<<1, 2>>), Given(<<2, 1>>), Given(<<2, 5>>),
     Given(<<5>>), Given(<<0, 1>>), Given(<<>>)}

RangeSelections ==
    {Absent,
     Given(<<[file |-> FileX, start |-> 1, end |-> 2]>>),
     Given(<<[file |-> FileX, start |-> 0, end |-> 3]>>),
     Given(<<[file |-> FileY, start |-> 0, end |-> 2]>>),
     Given(<<[file |-> FileY, start |-> 2, end |-> 9]>>),
     Given(<<[file |-> FileX, start |-> 3, end |-> 2]>>)}

SaveLocations ==
    {Undefined,
     HomeDir \o "/.deepwiki-mcp/notes/answer.md",
     HomeDir \o "/.deepwiki-mcp-backup/answer.md",
     HomeDir \o "/.deepwiki-mcp/../.ssh/authorized_keys",
     HomeDir \o "/.deepwiki-mcp/notes/../answer.md",
     "/tmp/answer.md",
     "answer.md"}

\* The calls: a view with a selection of snippets, a view with a request
\* for captured files, a view with every snippet and every file, a save of
\* the standard view.
RetrievalParams ==
    Views
    \cup {[v EXCEPT !.referencesAll = TRUE] : v \in Views}
    \cup {[v EXCEPT !.referencesAll = TRUE, !.contextAll = TRUE] : v \in Views}
    \cup {[v EXCEPT !.referencesNumbers = n] : v \in Views, n \in NumberSelections}
    \cup {[v EXCEPT !.contextAll = TRUE, !.contextRanges = r] :
            v \in Views, r \in RangeSelections}
    \cup {[v EXCEPT !.contextFiles = Given(<<f>>), !.contextRanges = r] :
            v \in Views, f \in {FileX, FileY}, r \in RangeSelections}
    \cup {[Retrieval EXCEPT !.contextFiles = Given(<<>>)],
          [Retrieval EXCEPT !.contextRanges = Given(<<>>)]}
    \cup {[Retrieval EXCEPT !.saveToFile = m, !.saveLocation = l] :
            m \in {"save-only", "save-and-show"}, l \in SaveLocations}

\* One retrieval after the server starts. The cache is all a retrieval
\* reads, and a retrieval does not write it.
retrieve ==
    /\ calls = 0
    /\ \E p \in RetrievalParams :
         \E disk \in DiskOutcomes(FALSE, Truthy(p.saveToFile)) :
           Answer(p, QuestionHandler(p, RunFailure(""), disk, cache))
    /\ calls' = calls + 1
    /\ UNCHANGED <<engineVars, assemblerVars>>

RetrievalInit ==
    /\ EngineIdle
    /\ AssemblerIdle
    /\ cache \in StoredCaches
    /\ params = NoParams
    /\ effects = <<>>
    /\ reply = NoReply
    /\ calls = 0
    /\ issued = {}
    /\ document = NoOutput

RetrievalNext == retrieve

RetrievalSpec == RetrievalInit /\ [][RetrievalNext]_vars

\* ------------------------------------------------------------------------
\* Properties of the polling loop
\* ------------------------------------------------------------------------

\* The step that handles the fetched answer of the current check.
CheckHandled == pc = "pollClassify" /\ pc' # pc

\* The answer is a decoded payload with a non-empty list of queries.
ValidPayload == inflight.response.kind = "ok" /\ inflight.queries # <<>>

PollOver == pc \in {"finally", "done"}

\* C1: a check whose payload has a non-empty list of queries, the last of
\* them in state 'done' or 'complete', ends the poll at that check: the
\* schedule position stays where it is, no fetch follows, and the poll
\* returns a success Result whose raw payload is the full list of queries.
C1_TerminalSuccessStopsPolling ==
    [][/\ (CheckHandled /\ ValidPayload
             /\ LastQuery(inflight.queries).state \in {"done", "complete"})
          => /\ pc' = "finally"
             /\ result'.success
             /\ result'.rawResponse = inflight.queries
             /\ scheduleIndex' = scheduleIndex
             /\ attempts' = attempts
       /\ PollOver => (PollOver' /\ attempts' = attempts /\ scheduleIndex' = scheduleIndex)
      ]_vars

\* A poll that returned success on a 'complete' turn with offsets of the
\* schedule still unused.
C1_Witness ==
    /\ pc = "finally"
    /\ result.success
    /\ result.rawResponse # <<>>
    /\ LastQuery(result.rawResponse).state = "complete"
    /\ result.rawResponse = inflight.queries
    /\ scheduleIndex + 1 < Len(pollSchedule)

\* C3: a status fetch answered 404 at schedule position i is no error: the
\* loop moves to position i+1 (which is exhaustion when i was the last), the
\* progress-tracking variables keep their values and no Result is produced.
C3_NotFoundIsNotReady ==
    [][(CheckHandled /\ inflight.response.kind = "http" /\ inflight.response.status = 404)
          => /\ pc' = "pollWait"
             /\ scheduleIndex' = scheduleIndex + 1
             /\ lastState' = lastState
             /\ lastResponseLength' = lastResponseLength
             /\ lastChangeTime' = lastChangeTime
             /\ result' = result
      ]_vars

\* A 404 was handled at the last position of the schedule, after a payload
\* had been seen, and the loop went on to exhaustion.
C3_Witness ==
    /\ pc = "pollWait"
    /\ inflight.response.kind = "http"
    /\ inflight.response.status = 404
    /\ scheduleIndex = Len(pollSchedule)
    /\ lastState = "pending"
    /\ result = NoResult

\* The fetch of the current check failed otherwise than by an HTTP 404.
FetchFailedNotNotFound ==
    \/ inflight.response.kind \in {"network", "json"}
    \/ inflight.response.kind = "http" /\ inflight.response.status # 404

\* C2: a check whose payload's last query is in state 'error' or has an
\* error field ends the poll at that check with a failure Result carrying
\* the remote error text, whatever the text and whatever the state.
C2_RemoteFailureStopsPolling ==
    [][(CheckHandled /\ ValidPayload
          /\ (\/ LastQuery(inflight.queries).state = "error"
              \/ LastQuery(inflight.queries).error # NoMessage))
          => /\ pc' = "finally"
             /\ ~result'.success
             /\ Includes(result'.error, LastQuery(inflight.queries).error)
             /\ scheduleIndex' = scheduleIndex
      ]_vars

\* C4: a status fetch that fails otherwise than by not-found ends the poll
\* at once with a failure Result; the rest of the schedule is not used.
C4_OtherFetchFailureIsFatal ==
    [][(CheckHandled /\ FetchFailedNotNotFound)
          => /\ pc' = "finally"
             /\ ~result'.success
             /\ result'.error # NoMessage
             /\ scheduleIndex' = scheduleIndex
      ]_vars

\* The step that leaves the loop with every scheduled check used.
ExhaustedStep == pc = "pollWait" /\ ~(scheduleIndex < Len(pollSchedule)) /\ pc' # pc

TimeoutProse == "Query did not complete within scheduled checks ("

LastStateShown == IF lastState # "" THEN lastState ELSE "unknown"

C6_ScheduleInOrderAndOnTime ==
    /\ [](/\ pc \in {"pollFetch", "pollClassify"}
             => /\ scheduleIndex < Len(pollSchedule)
                /\ attempts = scheduleIndex + 1
                /\ now >= startTime + pollSchedule[scheduleIndex + 1]
          /\ pc = "pollWait" => attempts = scheduleIndex
          /\ (PollOver /\ result.success)
             => /\ attempts = scheduleIndex + 1
                /\ now >= startTime + pollSchedule[attempts]
          /\ (PollOver /\ result.success /\ pollSchedule = <<10, 15, 20>>
                /\ scheduleIndex = 2)
             => (attempts = 3 /\ now - startTime >= 20))
    /\ [][/\ scheduleIndex' # scheduleIndex
             => \/ pc = "pollClassify" /\ scheduleIndex' = scheduleIndex + 1
                \/ pc = "pollStart"
          /\ attempts' # attempts
             => \/ pc = "pollWait" /\ pc' = "pollFetch" /\ attempts' = attempts + 1
                \/ pc = "pollStart"
        ]_vars

\* The schedule 10,15,20: the first two checks did not end the poll, the
\* third one, sent 20 s after the start, found the turn done.
C6_Witness ==
    /\ pc = "finally"
    /\ pollSchedule = <<10, 15, 20>>
    /\ result.success
    /\ LastQuery(result.rawResponse).state = "done"
    /\ attempts = 3
    /\ now - startTime = 20

\* ------------------------------------------------------------------------
\* Properties of the operation boundary and the session
\* ------------------------------------------------------------------------

\* C7: in headless mode the browser and every page are closed when the
\* operation has completed, on every exit path.
C7_HeadlessSessionClosed ==
    (headless /\ pc = "done")
        => \A h \in DOMAIN handles : handles[h] # "open"

\* C8: the operation never propagates an error: it resolves, and when it
\* did not succeed the Result carries an error text.
C8_AlwaysResolvesToResult ==
    pc = "done"
        => /\ outcome = "resolved"
           /\ (result.success \/ result.error # NoMessage)

\* No executable can be resolved: nothing is cached and the newest versioned
\* directory, if there is one, holds no executable.
NoExecutable ==
    /\ cachedExecutablePath = None
    /\ (DOMAIN installDir = {} \/ ~installDir[MaxVersion(installDir)])

\* C9: when no browser executable can be resolved the operation fails at
\* once with the diagnostic that names the remedy; no browser is launched,
\* no page is opened and no status fetch is sent.
C9_NoExecutableFailsEarly ==
    NoExecutable
        => /\ pc \in {"init", "finally", "done"}
           /\ launches = 0
           /\ handles = NoHandles
           /\ attempts = 0
           /\ inflight = NoAnswer
           /\ pc # "init"
              => /\ ~result.success
                 /\ Includes(result.error,
                             <<"Please run: npx playwright install chromium">>)

\* The installation cache holds an older chromium with its executable, the
\* newest directory holds none, and the operation has failed.
C9_Witness ==
    /\ NoExecutable
    /\ DOMAIN installDir # {}
    /\ pc = "done"
    /\ outcome = "resolved"
    /\ ~result.success

\* C10: a successful sendFollowUp returns the conversation with the turn
\* this follow-up created: one query more than before the call.
C10_FollowUpReturnsNewTurn ==
    (op = "sendFollowUp" /\ result.success)
        => Len(result.rawResponse) = Len(<<PriorQuery>>) + 1

\* ------------------------------------------------------------------------
\* Properties of the response assembler
\* ------------------------------------------------------------------------

Transformed == output # NoOutput

\* The positions of the citation fragments of a response.
Citations(response) == {i \in 1..Len(response) : response[i].type = "reference"}

\* A citation with a range other than 0-0.
ProperRange(item) ==
    ~(OrZero(item.data.range_start) = 0 /\ OrZero(item.data.range_end) = 0)

\* The citation at position i has text in front of it: a non-empty chunk
\* with no other citation in between.
HasTextBefore(response, i) ==
    \E j \in 1..(i - 1) :
        /\ response[j].type = "chunk"
        /\ response[j].data.text # ""
        /\ \A k \in (j + 1)..(i - 1) : response[k].type # "reference"

ReferencedSegments(segments) ==
    {i \in 1..Len(segments) : segments[i].reference # Undefined}

\* At most one segment is without a reference, and it is the last one.
OnlyLastUnreferenced(segments) ==
    \A i \in 1..Len(segments) :
        segments[i].reference = Undefined => i = Len(segments)

\* C18 as stated: for the fragment sequence of each query, the number of
\* answer segments with a reference is the number of citation fragments
\* whose range is not 0-0, and only the last segment may lack a reference.
C18_SegmentsCountProperCitations ==
    Transformed =>
        \A q \in 1..Len(input.rawResponse) :
            LET response == input.rawResponse[q].response
                segments == output.conversation[q].answer_segments
            IN  /\ Cardinality(ReferencedSegments(segments))
                     = Cardinality({i \in Citations(response) : ProperRange(response[i])})
                /\ OnlyLastUnreferenced(segments)

\* C18 as amended: the number of answer segments with a reference is the
\* number of citation fragments, of any range, that have a non-empty text
\* fragment between them and the citation before (or the start); only the
\* last segment may lack a reference.
C18_SegmentsCountCitationsAfterText ==
    Transformed =>
        \A q \in 1..Len(input.rawResponse) :
            LET response == input.rawResponse[q].response
                segments == output.conversation[q].answer_segments
            IN  /\ Cardinality(ReferencedSegments(segments))
                     = Cardinality({i \in Citations(response) : HasTextBefore(response, i)})
                /\ OnlyLastUnreferenced(segments)

\* One chunk followed by a 0-0 citation and a ranged one: a single segment,
\* carrying the 0-0 citation.
C18_Witness ==
    /\ Transformed
    /\ Len(input.rawResponse) = 1
    /\ input.rawResponse[1].response
         = <<Chunk("Looking at "), Reference(CitedFile, 0, 0), Reference(CitedFile, 10, 12)>>
    /\ output.conversation[1].answer_segments
         = <<[text |-> "Looking at ", reference |-> "a/b: x.py:0-0"]>>

\* The references of the input that are kept for a path, in order.
KeptFor(path) ==
    SelectSeq(input.references,
              LAMBDA ref : ~(ref.range_start = 0 /\ ref.range_end = 0)
                           /\ ReferencedPath(ref) = path)

\* The reference lies within the captured lines.
WithinCapture(ref, lines) ==
    1 <= ref.range_start /\ ref.range_start <= ref.range_end
        /\ ref.range_end <= Len(lines)

C20_DegenerateNeverReferenced ==
    Transformed =>
        /\ \A path \in DOMAIN output.referenced_files :
              \A i \in 1..Len(output.referenced_files[path]) :
                  output.referenced_files[path][i].reference_range # "0-0"
        /\ \A k \in 1..Len(input.references) :
              LET path == ReferencedPath(input.references[k])
              IN  (\A m \in 1..Len(input.references) :
                      ReferencedPath(input.references[m]) = path
                      => (input.references[m].range_start = 0
                          /\ input.references[m].range_end = 0))
                  => path \notin DOMAIN output.referenced_files

\* A captured file cited only 0-0, twice by the engine and once for its
\* capture: nothing is referenced.
C20_Witness ==
    /\ Transformed
    /\ HasCapture(input.rawResponse, CitedFile)
    /\ Len(input.references) = 3
    /\ \A k \in 1..3 :
          /\ ReferencedPath(input.references[k]) = CitedFile
          /\ input.references[k].range_start = 0
    /\ \E k \in 1..Len(input.rawResponse[1].response) :
          input.rawResponse[1].response[k] = Reference("Repo a/b: x.py:0-0", 0, 0)
    /\ DOMAIN output.referenced_files = {}

\* The citations of the conversation: file path and range of every
\* citation fragment with a range other than 0-0, in order.
CitedRanges ==
    SelectSeq(input.references,
              LAMBDA ref : ~(ref.range_start = 0 /\ ref.range_end = 0))

\* C21: referenced_files holds a single entry for a file-and-range citation
\* however often the conversation cites it, and its files are the cited
\* files in the order they are first cited.
C21_CitationsDeduplicated ==
    Transformed =>
        /\ \A path \in DOMAIN output.referenced_files :
              \A i, j \in 1..Len(output.referenced_files[path]) :
                  output.referenced_files[path][i].reference_range
                    = output.referenced_files[path][j].reference_range
                  => i = j
        /\ ReferencedFileNames(input.references)
             = Unique([k \in 1..Len(CitedRanges) |-> ReferencedPath(CitedRanges[k])])
        /\ {ReferencedFileNames(input.references)[k] :
                k \in 1..Len(ReferencedFileNames(input.references))}
             = DOMAIN output.referenced_files


\* ------------------------------------------------------------------------
\* Properties of the tool handlers
\* ------------------------------------------------------------------------

QuestionCall == params.tool = "wiki_question"

ParserCall == params.tool = "wiki_parser"

\* The call supplied a queryId and neither goDeeper nor followUpQuestion.
QueryIdOnly ==
    /\ QuestionCall
    /\ Truthy(params.queryId)
    /\ ~params.goDeeper
    /\ ~Truthy(params.followUpQuestion)

EngineInvoked ==
    \E i \in DOMAIN effects :
        effects[i] \in {"engine.askQuestion", "engine.goDeeper", "engine.sendFollowUp"}

CacheWritten == \E i \in DOMAIN effects : effects[i] = "cache.set"

CacheRead == \E i \in DOMAIN effects : effects[i] = "cache.get"

\* The answers of this session, by the routes given, that were returned
\* with the identifier and the repository of the call.
HandedOut(routes) ==
    {e \in issued : e.route \in routes /\ e.id = params.queryId
                    /\ e.repo = params.repo}

StartsWith(s, prefix) == HasPrefix(s, prefix)

\* C11: a queryId-only call made with the identifier a successful goDeeper
\* returned, and with the same repository, finds the deeper response in
\* the cache: the document of the call is the deeper document, and the
\* engine is not run.
C11_DeeperIdRetrievable ==
    (QueryIdOnly /\ HandedOut({"goDeeper"}) # {})
        => /\ ~EngineInvoked
           /\ \A e \in HandedOut({"goDeeper"}) : document = e.document

\* C12: a queryId-only call made with the identifier a successful new
\* question or follow-up returned, with the same repository and with
\* options that pass their checks, finds in the cache the document that
\* call stored (for a follow-up the document stored under the original
\* identifier in place of the earlier one), and the engine is not run.
C12_AnswerIdRetrievable ==
    (/\ QueryIdOnly
     /\ QuestionParamsError(params) = ""
     /\ HandedOut({"question", "followUp"}) # {})
        => /\ ~EngineInvoked
           /\ CacheRead
           /\ \A e \in HandedOut({"question", "followUp"}) : document = e.document

\* A queryId-only call returned the two-turn conversation a follow-up had
\* stored under the identifier it was given.
C12_Witness ==
    /\ QueryIdOnly
    /\ ~reply.isError
    /\ \E e \in HandedOut({"followUp"}) :
          /\ document = e.document
          /\ Len(document.conversation) = 2
          /\ params.queryId = GivenQueryId

\* The document the cache holds for the identifier and repository of the
\* call.
HeldDocument == getJSON(cache, "question", params.queryId, params.repo)

\* C13 as stated: a queryId-only call runs no engine and writes no cache;
\* it answers with the cached document when the cache holds the
\* identifier, and otherwise fails with 'No cached response found'.
C13_CachedOrNotFound ==
    QueryIdOnly
        => /\ ~EngineInvoked
           /\ ~CacheWritten
           /\ IF HeldDocument # NoOutput
              THEN ~reply.isError /\ document = HeldDocument
              ELSE /\ reply.isError
                   /\ StartsWith(reply.content, "Error: No cached response found")

\* C13: a queryId-only call runs no engine and writes no cache. With a
\* parameter that fails validation it fails with that error before any
\* lookup; otherwise it answers with the cached document when the cache
\* holds the identifier, failing only when the save it was asked for
\* fails (the location is turned down or the file is not written), and
\* fails with 'No cached response found for query ID: <id>' when the
\* cache does not hold it.
C13_ValidatedThenCachedOrNotFound ==
    QueryIdOnly
        => /\ ~EngineInvoked
           /\ ~CacheWritten
           /\ IF QuestionParamsError(params) # ""
              THEN /\ reply = Caught(QuestionParamsError(params))
                   /\ ~CacheRead
              ELSE IF HeldDocument # NoOutput
              THEN /\ document = HeldDocument
                   /\ reply.isError
                        => /\ Truthy(params.saveToFile)
                           /\ \/ reply = Caught(DiskFull)
                              \/ /\ Truthy(params.saveLocation)
                                 /\ reply = Caught(validateSaveLocation(
                                                       params.saveLocation).message)
              ELSE reply = Caught("No cached response found for query ID: "
                                  \o params.queryId)

\* A queryId-only call answered from the cache.
C13_Witness ==
    /\ QueryIdOnly
    /\ HeldDocument # NoOutput
    /\ document = HeldDocument
    /\ ~reply.isError
    /\ effects = <<"cache.get">>

\* The number of actions a call supplies: question, goDeeper = true,
\* followUpQuestion.
ActionsSupplied ==
    (IF Truthy(params.question) THEN 1 ELSE 0)
    + (IF params.goDeeper THEN 1 ELSE 0)
    + (IF Truthy(params.followUpQuestion) THEN 1 ELSE 0)

\* C14: a wiki_question call with more than one of question, goDeeper and
\* followUpQuestion, or with goDeeper or followUpQuestion and no queryId,
\* or with neither question nor queryId, gets an error result, and nothing
\* was read from the cache, written to it or asked of the engine.
C14_ConflictingCallRejectedFirst ==
    (/\ QuestionCall
     /\ \/ ActionsSupplied > 1
        \/ (params.goDeeper \/ Truthy(params.followUpQuestion))
           /\ ~Truthy(params.queryId)
        \/ ~Truthy(params.question) /\ ~Truthy(params.queryId))
        => /\ reply.isError
           /\ StartsWith(reply.content, "Error: ")
           /\ effects = <<>>
           /\ document = NoOutput

\* A call with a question, goDeeper and a well-formed queryId was
\* rejected.
C14_Witness ==
    /\ QuestionCall
    /\ Truthy(params.question)
    /\ params.goDeeper
    /\ params.queryId = GivenQueryId
    /\ reply.isError
    /\ effects = <<>>

\* The last thing the call did.
LastEffect == IF effects = <<>> THEN "" ELSE effects[Len(effects)]

\* C15: a handler never throws: the result of every call is returned, it
\* is flagged isError exactly when its text is 'Error: <message>', and a
\* call that failed validation, missed the cache, got no answer from the
\* engine or no page from the download is flagged; a flagged call that
\* ended on the write of its output file carries the error of that write.
C15_FailuresAreErrorResults ==
    calls > 0
        => /\ ~reply.thrown
           /\ reply.isError <=> StartsWith(reply.content, "Error: ")
           /\ (QuestionCall /\ TurnedDown(params)) => reply.isError
           /\ (ParserCall /\ ParserParamsError(params) # "") => reply.isError
           /\ (QueryIdOnly /\ ~TurnedDown(params) /\ document = NoOutput)
                => reply.isError
           /\ (EngineInvoked /\ ~CacheWritten) => reply.isError
           /\ LastEffect = "fetch" => reply.isError
           /\ (reply.isError /\ LastEffect = "file.write")
                => reply.content = "Error: " \o DiskFull

\* The engine's promise was rejected and the handler returned the error.
C15_Witness ==
    /\ QuestionCall
    /\ EngineInvoked
    /\ reply = Caught(LaunchFailed)


\* ------------------------------------------------------------------------
\* Properties of the schedule selection
\* ------------------------------------------------------------------------

Polling == pc \in {"pollWait", "pollFetch", "pollClassify"}

\* The latest check warned that the response has stopped changing.
StuckWarned ==
    /\ console # <<>>
    /\ Head(console[1]) = "Warning: No changes detected for "

\* C16: while goDeeper polls, the mode is deep, the schedule is the one
\* selected for deep mode (its override or its default, never the regular
\* one), a stall warning is given only after more than the deep threshold
\* without a change, and the identifier polled is the one extracted from
\* the new page, which is not the identifier given; the Result of a
\* successful goDeeper carries that new identifier.
C16_GoDeeperPollsNewQueryDeep ==
    op = "goDeeper"
        => /\ Polling
                => /\ pollDeep
                   /\ pollSchedule = parseCustomPollSchedule(env.deep, DEEP_MODE)
                   /\ queryId = extractQueryId(url)
                   /\ queryId # GivenId
           /\ (Polling /\ StuckWarned)
                => now - lastChangeTime > STUCK_THRESHOLD_DEEP
           /\ result.success
                => result.queryId = extractQueryId(url) /\ result.queryId # GivenId

\* A goDeeper whose caller did not ask for deep research, with the regular
\* override set, has polled the new identifier and returned it.
C16_Witness ==
    /\ op = "goDeeper"
    /\ ~useDeepResearch
    /\ env.regular.set
    /\ pollDeep
    /\ result.success
    /\ result.queryId = NewId

\* An entry of an override that is a positive integer and nothing else.
PositiveInteger(part) ==
    LET t == Trim(part)
    IN  /\ t # <<>>
        /\ \A i \in 1..Len(t) : IsDigit(t[i])
        /\ DigitPrefixValue(t, 0) > 0

\* The schedule C17 describes for an override and a default.
DescribedSchedule(envVar, defaultSchedule) ==
    IF ~envVar.set THEN defaultSchedule
    ELSE IF \A i \in 1..Len(envVar.parts) : PositiveInteger(envVar.parts[i])
    THEN SortAscending([i \in 1..Len(envVar.parts) |->
                           DigitPrefixValue(Trim(envVar.parts[i]), 0)])
    ELSE defaultSchedule

\* C17: the schedule of a poll is the default of its mode when the
\* override of the mode is not set, the override's entries in ascending
\* order when all of them are positive integers, and the default when one
\* of them is not; it is never empty, its entries are positive and none is
\* smaller than the one before.
C17_ScheduleIsDefaultOrValidOverride ==
    Polling
        => /\ pollSchedule =
                  (IF pollDeep THEN DescribedSchedule(env.deep, DEEP_MODE)
                   ELSE DescribedSchedule(env.regular, REGULAR_MODE))
           /\ pollSchedule # <<>>
           /\ \A i \in 1..Len(pollSchedule) : pollSchedule[i] > 0
           /\ \A i \in 1..(Len(pollSchedule) - 1) :
                  pollSchedule[i] <= pollSchedule[i + 1]

\* ------------------------------------------------------------------------
\* Properties of the renderer
\* ------------------------------------------------------------------------

\* The text holds the part somewhere.
Holds(text, part) ==
    \E i \in 1..(Len(text) - Len(part) + 1) :
        SubSeq(text, i, i + Len(part) - 1) = part

\* A retrieval has been answered.
Retrieved == calls = 1 /\ params.tool = "wiki_question" /\ RouteOf(params) = "cached"

\* The document the cache holds under the id of the retrieval.
StoredDocument == getJSON(cache, "question", GivenQueryId, QuestionRepo)

\* The reply is the markdown itself: the call succeeded and saved nothing.
Rendered == Retrieved /\ ~reply.isError /\ ~Truthy(params.saveToFile)

\* The call asks for the content of the file.
AsksFor(fileName) ==
    \/ params.contextAll
    \/ /\ params.contextFiles.given
       /\ \E i \in 1..Len(params.contextFiles.value) :
              params.contextFiles.value[i] = fileName

\* The lines of a captured text.
LinesOf(text) == Split(text, "\n")

\* The part of a capture a call asks for: the lines of its range for the
\* file, counted from 0 as the headings count them, or the whole text.
RequestedPart(context) ==
    LET ranges == SelectSeq(params.contextRanges.value,
                            LAMBDA range : range.file = context.file_name)
        lines  == LinesOf(context.text)
    IN  IF ranges = <<>> THEN context.text
        ELSE Join(SubSeq(lines, Min(ranges[1].start, Len(lines)) + 1,
                         Min(ranges[1].end + 1, Len(lines))), "\n")

\* The text between the fences, as it stands in the markdown.
Body(content) == "\n" \o content \o (IF EndsWithNewline(content) THEN "" ELSE "\n")

\* C22 as stated: a retrieval that passes validation and names a captured
\* file in contextFiles, or sets contextAll, is answered with markdown that
\* holds the file's content (whole, or the lines of its contextRanges
\* entry), whatever includeAnswer and includeReferencesList are.
C22_RequestedFilesRendered ==
    (Retrieved /\ QuestionParamsError(params) = "" /\ ~Truthy(params.saveToFile))
    => \A i \in 1..Len(StoredDocument.full_context) :
          AsksFor(StoredDocument.full_context[i].file_name)
          => /\ ~reply.isError
             /\ Holds(reply.content,
                            Body(RequestedPart(StoredDocument.full_context[i])))

\* The range the headings print for a capture: [0-(lines - 1)].
HeadingRange(context) ==
    [file |-> context.file_name, start |-> 0,
     end |-> Len(LinesOf(context.text)) - 1]

\* C23 as stated: a retrieval that asks for a captured file with, in
\* contextRanges, exactly the range its heading prints is accepted and its
\* markdown holds the captured content, every line of it.
C23_HeadingRangeRoundTrip ==
    (Retrieved /\ ~Truthy(params.saveToFile))
    => \A i \in 1..Len(StoredDocument.full_context) :
          (/\ AsksFor(StoredDocument.full_context[i].file_name)
           /\ ~(params.includeAnswer /\ params.includeReferencesList)
           /\ params.contextRanges
                = Given(<<HeadingRange(StoredDocument.full_context[i])>>))
          => /\ ~reply.isError
             /\ Holds(reply.content,
                            Body(StoredDocument.full_context[i].text))

\* The citation keys of the segments of a conversation, in order, each as
\* often as it is cited.
CitationKeys(conversation) ==
    LET cited == SelectSeq(AllSegments(conversation),
                           LAMBDA segment : segment.reference # Undefined
                                            /\ segment.reference # "")
    IN  [i \in 1..Len(cited) |-> cited[i].reference]

\* The number of a key: how many distinct keys are cited up to its first
\* citation.
NumberOfKey(keys, key) ==
    LET first == CHOOSE i \in 1..Len(keys) :
                     keys[i] = key /\ \A j \in 1..(i - 1) : keys[j] # key
    IN  Cardinality({keys[j] : j \in 1..first})

Reversed(list) == [i \in 1..Len(list) |-> list[Len(list) + 1 - i]]

\* C24: in the markdown of a retrieval, the marker of every cited segment
\* and the line of every key in the reference list carry the number of the
\* key by first citation across all turns, whatever snippets are selected;
\* and the markdown is the same with referencesNumbers in reverse order.
C24_NumberingFollowsConversation ==
    Rendered =>
        LET keys == CitationKeys(document.conversation)
        IN  /\ params.includeAnswer
               => \A q \in 1..Len(document.conversation) :
                    \A k \in 1..Len(document.conversation[q].answer_segments) :
                       LET segment == document.conversation[q].answer_segments[k]
                       IN  segment.reference # Undefined
                           => Holds(reply.content,
                                  segment.text \o " ["
                                  \o NumStr(NumberOfKey(keys, segment.reference))
                                  \o "]")
            /\ params.includeReferencesList
               => \A i \in 1..Len(keys) :
                     Holds(reply.content,
                                 "[" \o NumStr(NumberOfKey(keys, keys[i])) \o "]: "
                                 \o keys[i])
            /\ params.referencesNumbers.given
               => reply.content
                    = generateMarkdown(
                          document,
                          [params EXCEPT !.referencesNumbers =
                              Given(Reversed(params.referencesNumbers.value))])

\* Two turns, the second citing y.md and then x.py again, which the first
\* turn cited: x.py is [1] and y.md [2], and the snippets selected as
\* [2, 1] come in the order of the files.
C24_Witness ==
    /\ Rendered
    /\ params.referencesNumbers = Given(<<2, 1>>)
    /\ params.includeAnswer /\ params.includeReferencesList
    /\ Len(document.conversation) = 2
    /\ CitationKeys(document.conversation)
         = <<"a/b: x.py:1-2", "a/b: y.md:1-1", "a/b: x.py:1-2">>
    /\ Holds(reply.content, "See y.  [2]See x.  [1]")
    /\ Holds(reply.content, "[1]: a/b: x.py:1-2 \n[2]: a/b: y.md:1-1 \n")
    /\ Holds(reply.content, "## a/b/y.md\n\n**[1-1]:**")
    /\ Holds(reply.content, "## a/b/x.py\n\n**[1-2]:**")

\* The numbers of a selection that are positions of the reference list.
InRange(numbers, count) ==
    SelectSeq(numbers, LAMBDA n : 1 <= n /\ n <= count)

OutOfRangeSelected ==
    /\ params.referencesNumbers.given
    /\ ~params.referencesAll
    /\ \E i \in 1..Len(params.referencesNumbers.value) :
          \/ params.referencesNumbers.value[i] < 1
          \/ params.referencesNumbers.value[i]
               > Len(Unique(CitationKeys(StoredDocument.conversation)))

\* The markdown of the stored document with the numbers out of range left
\* out of the selection.
InRangeMarkdown ==
    generateMarkdown(
        StoredDocument,
        [params EXCEPT !.referencesNumbers =
            Given(InRange(params.referencesNumbers.value,
                          Len(Unique(CitationKeys(StoredDocument.conversation)))))])

\* C25 as stated: a retrieval whose referencesNumbers holds a number
\* outside 1..(number of distinct citations) does not fail, and its
\* markdown is that of the numbers in range.
C25_OutOfRangeIgnored ==
    (Retrieved /\ ~Truthy(params.saveToFile) /\ OutOfRangeSelected)
    => /\ ~reply.isError
       /\ reply.content = InRangeMarkdown

\* C25 as amended: a number above the number of distinct citations is
\* ignored, the markdown being that of the numbers in range; a number
\* below 1 makes the call fail in validation, before anything is rendered.
C25_AboveRangeIgnoredBelowRejected ==
    (Retrieved /\ ~Truthy(params.saveToFile) /\ OutOfRangeSelected)
    => IF \E i \in 1..Len(params.referencesNumbers.value) :
              params.referencesNumbers.value[i] < 1
       THEN /\ reply.isError
            /\ Holds(reply.content, "must be positive")
            /\ effects = <<>>
       ELSE /\ ~reply.isError
            /\ reply.content = InRangeMarkdown

\* [2, 5] on a document of three citations: the snippet of [2] alone.
C25_Witness ==
    /\ Rendered
    /\ params.referencesNumbers = Given(<<2, 5>>)
    /\ Len(Unique(CitationKeys(document.conversation))) = 3
    /\ CitationKeys(document.conversation)[2] = "a/b: y.md:1-1"
    /\ Holds(reply.content, "## a/b/y.md\n\n**[1-1]:**")
    /\ ~Holds(reply.content, "## a/b/x.py\n\n**[1-2]:**")
    /\ ~Holds(reply.content, "## a/b/z.js\n\n**[2-3]:**")

\* The string is a run of n backticks.
IsFence(s, n) == s = Repeat(Backtick, n)

\* A fence that closes a block of the content and that no line of the
\* content can close early: the same run of at least three backticks on
\* both sides, longer than every run of backticks in the content.
SafeFence(fence, content) ==
    /\ fence.open = fence.close
    /\ \E n \in 3..(Len(content) + 3) : IsFence(fence.open, n)
    /\ ~StrIncludes(content, fence.open)
    /\ \A n \in 1..Len(content) :
          StrIncludes(content, Repeat(Backtick, n)) => Len(fence.open) >= n + 1

\* The snippets a call that asks for all of them is shown: those of the
\* entries whose file and range are cited.
CitedEntry(fileName, entry) ==
    \E i \in 1..Len(UniqueReferences(document)) :
        /\ ParseReference(UniqueReferences(document)[i]).parsed
        /\ ParseReference(UniqueReferences(document)[i]).fileName = fileName
        /\ ParseReference(UniqueReferences(document)[i]).lineRange
             = entry.reference_range

\* C26: every snippet and every file content of a retrieved document gets
\* a fence that is the same on both sides, at least three backticks and
\* longer than the longest run of backticks in it; the markdown holds the
\* block between two such fences.
C26_FenceOutrunsContent ==
    Rendered =>
        /\ \A path \in DOMAIN document.referenced_files :
              \A i \in 1..Len(document.referenced_files[path]) :
                 LET entry == document.referenced_files[path][i]
                     fence == getCodeFence(entry.reference_material)
                 IN  /\ SafeFence(fence, entry.reference_material)
                     /\ (params.referencesAll /\ CitedEntry(path, entry))
                        => Holds(reply.content,
                                       fence.open \o Body(entry.reference_material)
                                       \o fence.close)
        /\ \A i \in 1..Len(document.full_context) :
              LET content == RequestedPart(document.full_context[i])
                  fence   == getCodeFence(content)
              IN  /\ SafeFence(fence, content)
                  /\ (/\ AsksFor(document.full_context[i].file_name)
                      /\ ~(params.includeAnswer /\ params.includeReferencesList))
                     => Holds(reply.content,
                                    fence.open \o Body(content) \o fence.close)

\* x.py's snippet holds a run of three backticks and is fenced with four;
\* y.md's content holds a run of four and is fenced with five.
C26_Witness ==
    /\ Rendered
    /\ params.referencesAll
    /\ ~params.includeAnswer
    /\ params.contextAll
    /\ params.contextRanges = Absent
    /\ FileX \in DOMAIN document.referenced_files
    /\ StrIncludes(document.referenced_files[FileX][1].reference_material,
                   Repeat(Backtick, 3))
    /\ Holds(reply.content,
                   "**[1-2]:**\n\n" \o Repeat(Backtick, 4) \o "\none\n"
                   \o Repeat(Backtick, 3) \o "\nthree\n" \o Repeat(Backtick, 4) \o "\n")
    /\ Holds(reply.content,
                   "## a/b/y.md [0-2]\n\n" \o Repeat(Backtick, 5) \o "\n"
                   \o ContentY \o Repeat(Backtick, 5))

\* ------------------------------------------------------------------------
\* Properties of saving
\* ------------------------------------------------------------------------

\* The path is one of the directories or lies inside one of them.
LiesWithin(path, directories) ==
    \E i \in 1..Len(directories) :
        \/ path = directories[i]
        \/ HasPrefix(path, directories[i] \o "/")

\* The latest call wrote its output file, or tried to.
FileWritten == \E i \in 1..Len(effects) : effects[i] = "file.write"

\* C29: a retrieval that is to save at a location given by the caller
\* writes the file only if the location resolves to an allowed directory or
\* into one and holds no '..'; for every other location the call is
\* rejected and nothing is written.
C29_OnlyAllowedLocationsWritten ==
    (/\ Retrieved
     /\ QuestionParamsError(params) = ""
     /\ Truthy(params.saveToFile)
     /\ Truthy(params.saveLocation))
    => \/ /\ LiesWithin(resolve(params.saveLocation), getAllowedDirectories)
          /\ ~StrIncludes(params.saveLocation, "..")
       \/ /\ reply.isError
          /\ ~FileWritten

\* ------------------------------------------------------------------------
\* Properties of follow-ups
\* ------------------------------------------------------------------------

\* A follow-up has been answered and its reply is the markdown itself.
FollowedUp ==
    /\ params.tool = "wiki_question"
    /\ RouteOf(params) = "followUp"
    /\ ~reply.isError
    /\ ~Truthy(params.saveToFile)

\* The text a turn of the document opens with.
OpeningOf(turn) == turn.answer_segments[1].text

\* Where the part first stands in the text; 0 when it does not.
FirstAt(text, part) ==
    IF Holds(text, part)
    THEN CHOOSE i \in 1..(Len(text) - Len(part) + 1) :
             /\ SubSeq(text, i, i + Len(part) - 1) = part
             /\ \A j \in 1..(i - 1) : SubSeq(text, j, j + Len(part) - 1) # part
    ELSE 0

\* The turns of the document whose text the reply holds.
RenderedTurns ==
    {i \in 1..Len(document.conversation) :
        Holds(reply.content, OpeningOf(document.conversation[i]))}

\* C27: the reply to a follow-up holds the newest turn alone when
\* includeFullConversation is false, and every turn, in the order of the
\* conversation, when it is true; either way the cache holds the whole
\* conversation under the id of the call.
C27_FollowUpShowsNewestTurn ==
    FollowedUp
    => /\ getJSON(cache, "question", params.queryId, params.repo) = document
       /\ RenderedTurns = IF params.includeFullConversation
                          THEN 1..Len(document.conversation)
                          ELSE {Len(document.conversation)}
       /\ \A i, j \in RenderedTurns :
              i < j => FirstAt(reply.content, OpeningOf(document.conversation[i]))
                       < FirstAt(reply.content, OpeningOf(document.conversation[j]))

\* A follow-up to a conversation of two turns was answered with the
\* second turn alone, the cache holding both.
C27_Witness ==
    /\ FollowedUp
    /\ ~params.includeFullConversation
    /\ Len(getJSON(cache, "question", params.queryId, params.repo).conversation) = 2
    /\ Holds(reply.content, "# Answer\n\nIt throws.\n")
    /\ ~Holds(reply.content, "It renders views.")

\* A follow-up was answered with both turns of the conversation.
C27_WholeConversationShown ==
    /\ FollowedUp
    /\ params.includeFullConversation
    /\ Holds(reply.content,
             "# Answer\n\nIt renders views. [1]\n---\n\n**Follow-up:** And on failure?\n\nIt throws.\n")

\* ------------------------------------------------------------------------
\* Properties of the order of validation
\* ------------------------------------------------------------------------

\* The errors the checks of the caller's parameters end in for this call:
\* those at the head of wikiQuestionTool and that of the save location.
ParameterFailures(p) ==
    {QuestionParamsError(p),
     IF Truthy(p.saveToFile) /\ Truthy(p.saveLocation)
     THEN validateSaveLocation(p.saveLocation).message ELSE ""} \ {""}

\* The latest call was turned down on one of its parameters.
ParameterRejected ==
    /\ params.tool = "wiki_question"
    /\ reply.isError
    /\ \E m \in ParameterFailures(params) : reply.content = "Error: " \o m

\* The head of wikiQuestionTool turned the latest call down.
RejectedAtHead ==
    /\ ParameterRejected
    /\ reply.content = "Error: " \o QuestionParamsError(params)

\* C28: a call to the question tool that is turned down on one of its
\* parameters (the save location among them) has not read the cache, has
\* not written it and has not called the engine.
C28_ValidationBeforeEffects == ParameterRejected => effects = <<>>

\* The checks at the head of the tool come before every effect.
C28_HeadChecksBeforeEffects == RejectedAtHead => effects = <<>>

\* ------------------------------------------------------------------------
\* Properties of the wiki parser
\* ------------------------------------------------------------------------

\* An extract call that names the one chapter entry has been answered with
\* the text itself, out of the wiki page of the repository.
Extracted(entry) ==
    /\ params.tool = "wiki_parser"
    /\ params.action = "extract"
    /\ params.chapters = Given(<<entry>>)
    /\ ~reply.isError
    /\ ~Truthy(params.saveToFile)
    /\ CacheManagerGet(cache, "wiki", "wiki_" \o params.repo, params.repo).text
         = WikiPage

\* The reply is the chapter's title and the section, and nothing else of
\* the chapter.
IsSection(title, section) ==
    reply.content = "# " \o title \o "\n\n" \o section \o "\n\n"

\* The section Installation of the chapter Setup of the page, with the
\* subsection under it, up to the header of Configuration.
InstallationSection == "## Installation\nRun it.\n### Linux\nUse apt."

\* C30: a chapters entry 'Chapter##Section' selects the chapter and
\* extracts that section, from its header up to the next header of the
\* same or a higher level.
C30_ChapterSectionExtracted ==
    /\ Extracted("Setup##Installation") => IsSection("Setup", InstallationSection)
    /\ Extracted("Part 2##Usage") => IsSection("Part 2", "## Usage\nCall it.")

\* The same entries with a blank before the hashes, or after a title that
\* ends in a digit, do extract the section.
C30_SpacedEntryExtracted ==
    /\ Extracted("Setup ##Installation") => IsSection("Setup", InstallationSection)
    /\ Extracted("Setup ###Linux") => IsSection("Setup", "### Linux\nUse apt.")
    /\ Extracted("2 ##Configuration")
       => IsSection("Setup", "## Configuration\nEdit it.")
    /\ Extracted("Part 2##Usage") => IsSection("Part 2", "## Usage\nCall it.")

\* The entry without a blank is answered with an empty text.
C30_UnspacedEntryEmpty ==
    Extracted("Setup##Installation") => reply.content = ""

\* ------------------------------------------------------------------------
\* Properties of termination
\* ------------------------------------------------------------------------

\* The steps of the operation itself: each is the continuation of an await
\* that settles (a wait with a timeout, a timer, a fetch that returns), so
\* a step that stays enabled is eventually taken.  The remote engine is
\* under no obligation to make progress.
EngineStep ==
    \/ InitBrowser
    \/ AskOpenForm
    \/ FollowUpOpenForm
    \/ GoDeeperClick
    \/ enableDeepResearch
    \/ Submit
    \/ WaitNewPage
    \/ ExtractId
    \/ SeedHistory
    \/ CloseNewPage
    \/ InitialWait
    \/ StartPolling
    \/ waitForNextScheduledCheck
    \/ FetchStatus
    \/ ClassifyCheck
    \/ ScheduleExhausted
    \/ Finally

FairSpec == Spec /\ WF_vars(EngineStep)

SessionReleased == \A h \in DOMAIN handles : handles[h] # "open"

\* C31: every poll terminates and so does the operation around it: a
\* headless operation eventually returns a Result with its session
\* released.
C31_OperationReturnsAndReleases ==
    headless => <>(pc = "done" /\ outcome = "resolved" /\ SessionReleased)

\* The part of C31 about the poll alone: never more fetches than the
\* schedule has offsets, every poll that starts ends, and it ends with a
\* success or with a failure that carries a message.
C31_PollTerminates ==
    /\ [](attempts <= Len(pollSchedule))
    /\ (pc = "pollStart") ~> PollOver
    /\ <>(pc = "done")
    /\ [](PollOver => (result.success \/ result.error # NoMessage))

\* ------------------------------------------------------------------------
\* Properties of checks that do not end the poll
\* ------------------------------------------------------------------------

\* The fetch was answered with a decoded payload that is neither a terminal
\* success nor a terminal failure: it has no queries, or its last query has
\* no error field and a state other than 'done', 'complete' and 'error'.
NonTerminalPayload ==
    /\ inflight.response.kind = "ok"
    /\ \/ inflight.queries = <<>>
       \/ /\ inflight.queries # <<>>
          /\ LastQuery(inflight.queries).state \notin {"done", "complete", "error"}
          /\ LastQuery(inflight.queries).error = NoMessage

\* C32: a check whose payload is neither terminal success nor terminal
\* failure (state 'pending', a state the loop does not know, or no queries)
\* produces no Result and no fault: it uses up one offset of the schedule,
\* without a second fetch for it, and the loop goes on to wait for the next
\* offset, which it fetches no earlier than that offset's time.
C32_NonTerminalCheckContinues ==
    [][/\ (CheckHandled /\ NonTerminalPayload)
          => /\ pc' = "pollWait"
             /\ scheduleIndex' = scheduleIndex + 1
             /\ attempts' = attempts
             /\ result' = result
             /\ outcome' = outcome
       /\ (pc = "pollWait" /\ pc' # pc /\ scheduleIndex < Len(pollSchedule))
          => /\ pc' = "pollFetch"
             /\ scheduleIndex' = scheduleIndex
             /\ attempts' = scheduleIndex + 1
             /\ now' >= startTime + pollSchedule[scheduleIndex + 1]
      ]_vars

\* Two checks went by without ending the poll, the second on a turn in a
\* state the loop does not know, and the third fetch has been sent.
C32_Witness ==
    /\ pc = "pollClassify"
    /\ scheduleIndex = 2
    /\ attempts = 3
    /\ lastState = "cancelled"
    /\ result = NoResult

\* ------------------------------------------------------------------------
\* Properties of progress tracking and stall detection
\* ------------------------------------------------------------------------

\* The check being handled leaves the loop running, so that the tracking
\* variables outlive it.
CheckContinues == CheckHandled /\ pc' = "pollWait"

\* The payload of the check shows progress against what is tracked: another
\* state, or more fragments.
ShowsChange ==
    \/ LastQuery(inflight.queries).state # lastState
    \/ Len(LastQuery(inflight.queries).response) > lastResponseLength

\* C33: at a check with a valid payload the change timestamp is set to the
\* time of the check when the payload shows another state than the tracked
\* one or more fragments than the tracked count, and keeps its value
\* otherwise; the tracked state becomes the last query's state, and the
\* tracked count becomes the count of this payload at a change and keeps its
\* value otherwise.  Every other check (404, no queries) and every other
\* step of a running poll leaves the three variables alone.
C33_TrackingFollowsChanges ==
    [][/\ (CheckContinues /\ ValidPayload /\ ShowsChange)
          => /\ lastChangeTime' = now
             /\ lastState' = LastQuery(inflight.queries).state
             /\ lastResponseLength' = Len(LastQuery(inflight.queries).response)
       /\ (CheckContinues /\ ValidPayload /\ ~ShowsChange)
          => /\ lastChangeTime' = lastChangeTime
             /\ lastState' = LastQuery(inflight.queries).state
             /\ lastResponseLength' = lastResponseLength
       /\ (CheckContinues /\ ~ValidPayload)
          => UNCHANGED <<lastState, lastResponseLength, lastChangeTime>>
       /\ (pc \in {"pollWait", "pollFetch"} /\ pc' \in {"pollWait", "pollFetch", "pollClassify"})
          => UNCHANGED <<lastState, lastResponseLength, lastChangeTime>>
      ]_vars

\* Three checks of a pending turn: the first saw the state, the second saw
\* the first fragment, the third saw nothing new and left the timestamp of
\* the second in place.
C33_Witness ==
    /\ pc = "pollWait"
    /\ scheduleIndex = 3
    /\ lastState = "pending"
    /\ lastResponseLength = 1
    /\ inflight.response.kind = "ok"
    /\ lastChangeTime > startTime + pollSchedule[1]
    /\ lastChangeTime < startTime + pollSchedule[3]

\* The check being handled wrote a stall warning.
WarnsNow == CheckHandled /\ console' # <<>>

\* C34: a check writes a stall warning only when its payload's last query
\* is 'pending' and shows no change against what is tracked, and more than
\* the threshold of the poll's mode, 60 s regular and 120 s deep, has passed
\* since the tracked time of change; the line names that time.  The check
\* does then what it does for the same payload without a warning: the
\* tracking variables keep their values, and either the loop moves to the
\* next offset with no Result, or, the pending query carrying an error
\* field, the poll fails with the remote error.
C34_StallWarningOnlyObserves ==
    [][WarnsNow
          => /\ ValidPayload
             /\ LastQuery(inflight.queries).state = "pending"
             /\ ~ShowsChange
             /\ now - lastChangeTime > (IF pollDeep THEN 120 ELSE 60)
             /\ console' = <<<<"Warning: No changes detected for ">>
                               \o formatTime(now - lastChangeTime)>>
             /\ attempts' = attempts
             /\ pc' = "pollWait"
                => UNCHANGED <<lastState, lastResponseLength, lastChangeTime>>
             /\ LastQuery(inflight.queries).error = NoMessage
                => /\ pc' = "pollWait"
                   /\ scheduleIndex' = scheduleIndex + 1
                   /\ result' = result
             /\ LastQuery(inflight.queries).error # NoMessage
                => /\ pc' = "finally"
                   /\ scheduleIndex' = scheduleIndex
                   /\ result' = Failure(QueryFailedMessage(LastQuery(inflight.queries).error))
      ]_vars

\* A regular poll went on after a check that warned of a stall.
C34_Witness ==
    /\ pc = "pollWait"
    /\ ~pollDeep
    /\ StuckWarned
    /\ lastState = "pending"
    /\ scheduleIndex < Len(pollSchedule)
    /\ result = NoResult

\* A regular poll failed at a check that warned of a stall: the pending
\* query carried an error field.
C34_WarnedAndFailed ==
    /\ pc = "finally"
    /\ StuckWarned
    /\ ~result.success
    /\ Head(result.error) = "Query failed: "

\* C35: only a failure of the fetch itself is taken for 'not ready': a
\* check that leaves the loop running after its payload was fetched and
\* decoded had nothing terminal in that payload, neither the state 'error'
\* nor an error field, whatever the text of the remote error.
C35_ToleranceOnlyForFetchFailures ==
    [][(CheckContinues /\ inflight.response.kind = "ok") => NonTerminalPayload]_vars

\* ------------------------------------------------------------------------
\* Properties of the order of steps in askQuestion
\* ------------------------------------------------------------------------

\* The address of the new page ends in search/<identifier>.
AddressHasId == Len(url) >= 2 /\ url[Len(url) - 1] = "search"

\* A status fetch has been prepared, sent or handled.
FetchIssued == attempts > 0 \/ inflight # NoAnswer \/ Polling

\* C36: in askQuestion a status fetch is issued only once an identifier has
\* been taken from the address of the new page, and polls that identifier;
\* when the address yields none the operation fails naming the address and
\* never fetches or seeds; the history is seeded with the identifier on the
\* new page while it is open, and a new page closed before the teardown had
\* been seeded; the identifier of a success Result is the one taken from the
\* address.
C36_AskQuestionStepsInOrder ==
    /\ [](op = "askQuestion"
            => /\ FetchIssued => (AddressHasId /\ queryId = url[Len(url)])
               /\ queryId # None => (AddressHasId /\ queryId = url[Len(url)])
               /\ (url # <<>> /\ ~AddressHasId /\ pc # "extract")
                  => /\ PollOver
                     /\ result = Failure(<<"Failed to extract query ID from URL: ">> \o url)
                     /\ ~FetchIssued
                     /\ history = None
               /\ history # None => (AddressHasId /\ history = url[Len(url)])
               /\ (handles.tab = "closed" /\ ~PollOver) => history # None
               /\ FetchIssued => history # None
               /\ result.success => (AddressHasId /\ result.queryId = url[Len(url)]))
    /\ [][(op = "askQuestion" /\ history' # history)
             => (handles.tab = "open" /\ handles'.tab = "open" /\ queryId # None)
        ]_vars

\* A headless askQuestion succeeded: the identifier of the Result is the
\* one of the address, the history holds it and the new page is closed.
C36_Witness ==
    /\ op = "askQuestion"
    /\ headless
    /\ pc = "done"
    /\ result.success
    /\ result.queryId = NewId
    /\ url = <<"search", NewId>>
    /\ history = NewId
    /\ handles.tab = "closed"
    /\ attempts > 1

\* An askQuestion whose new page landed on an address without an
\* identifier has failed without a fetch.
C36_ExtractionFailed ==
    /\ op = "askQuestion"
    /\ url = <<"search", NewId, "edit">>
    /\ pc = "done"
    /\ ~result.success
    /\ attempts = 0

\* ------------------------------------------------------------------------
\* Properties of the deep-analysis toggle
\* ------------------------------------------------------------------------

\* The question is submitted by this step.
Submits == pc = "submit" /\ pendingTurn' /\ ~pendingTurn

\* C37: with deep mode requested in askQuestion or sendFollowUp the toggle
\* is clicked at most once, and only when it does not report the enabled
\* state; the question is submitted only with the toggle reporting the
\* enabled state.
C37_SubmittedOnlyWithToggleEnabled ==
    [][/\ (useDeepResearch /\ op # "goDeeper" /\ Submits) => toggle = "checked"
       /\ clicks' # clicks => (toggle # "checked" /\ clicks = 0 /\ clicks' = 1)
      ]_vars

\* The part of C37 that is about the click alone: at most one click, none
\* on a toggle that reports the enabled state, none without deep mode.
C37_ClickedAtMostOnce ==
    [][clicks' # clicks
          => /\ toggle # "checked"
             /\ clicks = 0
             /\ clicks' = 1
             /\ useDeepResearch
             /\ op # "goDeeper"
      ]_vars

\* ------------------------------------------------------------------------
\* Properties of reference numbers across calls
\* ------------------------------------------------------------------------

\* The citation key names its repository: "owner/repo: path:a-b".
KeyNamesRepository(key) == Holds(key, ": ")

\* The heading and the range line the snippet of a citation is printed
\* under: "## owner/repo/path" and "**[a-b]:**".
SnippetHeading(key) ==
    LET first == CHOOSE i \in 1..(Len(key) - 1) :
                     /\ SubSeq(key, i, i + 1) = ": "
                     /\ \A j \in 1..(i - 1) : SubSeq(key, j, j) # ":"
        last  == CHOOSE i \in 1..Len(key) :
                     /\ SubSeq(key, i, i) = ":"
                     /\ \A j \in (i + 1)..Len(key) : SubSeq(key, j, j) # ":"
    IN  "## " \o SubSeq(key, 1, first - 1) \o "/" \o SubSeq(key, first + 2, last - 1)
        \o "\n\n**[" \o SubSeq(key, last + 1, Len(key)) \o "]:**"

\* The line of the reference list that gives the key the number n.
ReferenceLine(n, key) == "[" \o NumStr(n) \o "]: " \o key \o " \n"

\* This call is a retrieval, by query id alone and with reference numbers,
\* of the conversation the call before it, a follow-up, was answered with.
RetrievesFollowedUp ==
    /\ FollowedUp
    /\ params'.tool = "wiki_question"
    /\ RouteOf(params') = "cached"
    /\ params'.queryId = params.queryId
    /\ params'.repo = params.repo
    /\ params'.referencesNumbers.given
    /\ ~Truthy(params'.saveToFile)
    /\ ~reply'.isError

\* Every number the follow-up's reference list gave to a citation selects
\* the snippet of that citation in the retrieval.
NumbersKept ==
    \A i \in 1..Len(params'.referencesNumbers.value) :
       \A k \in 1..Len(CitationKeys(document.conversation)) :
          LET key == CitationKeys(document.conversation)[k]
          IN  (/\ KeyNamesRepository(key)
               /\ Holds(reply.content,
                        ReferenceLine(params'.referencesNumbers.value[i], key)))
              => Holds(reply'.content, SnippetHeading(key))

\* C38: the number the reference list of a follow-up's reply shows for a
\* citation, with includeFullConversation false or true, selects the snippet
\* of that citation when a later call with the query id alone passes it as
\* referencesNumbers.
C38_ReferenceNumberKeepsMeaning ==
    [][RetrievesFollowedUp => NumbersKept]_vars

\* The part of C38 that is about a follow-up answered with the whole
\* conversation.
C38_WholeConversationNumbersKept ==
    [][(RetrievesFollowedUp /\ params.includeFullConversation) => NumbersKept]_vars

\* A retrieval of number 2 after a follow-up shown whole, whose reference
\* list gave that number to the citation of the newest turn.
C38_WholeConversationRetrieved ==
    /\ params.referencesNumbers = Given(<<2>>)
    /\ ~reply.isError
    /\ Holds(reply.content, "[2]: facebook/react: src/errors.js:3-4 \n")
    /\ Holds(reply.content, "## facebook/react/src/errors.js\n\n**[3-4]:**")

\* ------------------------------------------------------------------------
\* Properties of the cache of answers and of wiki pages
\* ------------------------------------------------------------------------

\* A new question (no queryId, no follow-up, no goDeeper) has been answered
\* without an error.
QuestionAnswered ==
    /\ QuestionCall
    /\ RouteOf(params) = "question"
    /\ ~reply.isError
    /\ reply # NoReply

\* C39: a new-question call with the repository, the text and the mode of
\* the new question answered just before it does not invoke the engine: it
\* is answered from the cache, with the same document.
C39_RepeatedQuestionServedFromCache ==
    [][(QuestionAnswered /\ calls' = calls + 1 /\ params' = params)
          => /\ \A i \in DOMAIN effects' : effects'[i] # "engine.askQuestion"
             /\ ~reply'.isError
             /\ document' = document
      ]_vars

\* The cache holds a file for the wiki page of the repository.
WikiEntry(files, repo) ==
    CacheManagerGet(files, "wiki", "wiki_" \o repo, repo) # NoContent

\* This step is a wiki_parser call that got past the checks of its
\* parameters.
ParserCalled ==
    /\ calls' = calls + 1
    /\ params'.tool = "wiki_parser"
    /\ ParserParamsError(params') = ""

Downloads == \E i \in DOMAIN effects : effects[i] = "fetch"

\* The reply is the error of a download that failed: no response, or a
\* response that is not OK.
DownloadFailed ==
    /\ reply.isError
    /\ \/ Holds(reply.content, "Network error: Failed to connect to ")
       \/ Holds(reply.content, "Failed to download wiki content: HTTP ")

\* C40: over the calls of wiki_parser for a repository, the cache comes to
\* hold the wiki page only through a call that downloaded it; a download
\* that failed leaves the cache as it was and the call fails, and a call
\* that finds no entry downloads; a call that finds the entry does not
\* download.
C40_WikiCachedOnceDownloaded ==
    [][ParserCalled
          => /\ (~WikiEntry(cache, params'.repo) /\ WikiEntry(cache', params'.repo))
                => (Downloads' /\ CacheWritten' /\ ~DownloadFailed')
             /\ DownloadFailed' => (cache' = cache /\ Downloads')
             /\ ~WikiEntry(cache, params'.repo) => Downloads'
             /\ WikiEntry(cache, params'.repo) => (~Downloads' /\ cache' = cache)
      ]_vars

\* The part of C40 that does not depend on what the entry holds.
C40_EntryOnlyFromDownload ==
    [][ParserCalled
          => /\ (~WikiEntry(cache, params'.repo) /\ WikiEntry(cache', params'.repo))
                => (Downloads' /\ CacheWritten' /\ ~DownloadFailed')
             /\ DownloadFailed' => (cache' = cache /\ Downloads')
             /\ ~WikiEntry(cache, params'.repo) => Downloads'
             /\ (WikiEntry(cache, params'.repo)
                   /\ CacheManagerGet(cache, "wiki", "wiki_" \o params'.repo,
                                      params'.repo).text # "")
                => (~Downloads' /\ cache' = cache)
      ]_vars

\* A call that found the page in the cache, put there by the call before
\* it, and did not download.
C40_ServedFromCache ==
    /\ ParserCall
    /\ calls = 2
    /\ WikiEntry(cache, params.repo)
    /\ effects = <<"cache.get">>
    /\ ~reply.isError

============================================================================
